---- MODULE Spec2Model ----
(***************************************************************************)
(* The progress and certificate store of the Our Africa desktop LMS        *)
(* (src/src/main/database/database.ts over the schema of                   *)
(* src/unnamed/part_005): the tables users, modules, user_progress,        *)
(* lesson_progress and certificates, and the DatabaseManager operations    *)
(* that read and write them; and the session time tracker of the renderer  *)
(* (useTimeTracker, src/src/preload/index.d.ts).                           *)
(*                                                                         *)
(* A table is a set of rows; SQL NULL and a JavaScript undefined argument  *)
(* are the integer NULL.  A lesson id is a tuple of one-character strings, *)
(* so that the LIKE patterns of the aggregate queries are computed.        *)
(***************************************************************************)
EXTENDS Integers, Sequences, FiniteSets, TLC

VARIABLES
    users,            \* table users: the set of user rows
    modules,          \* table modules: the set of module rows
    user_progress,    \* table user_progress (module-level progress)
    lesson_progress,  \* table lesson_progress (lesson- and quiz-level progress)
    certificates,     \* table certificates
    certSeq,          \* AUTOINCREMENT sequence of certificates.id
    now,              \* the wall clock read by new Date() / Date.now() / CURRENT_TIMESTAMP
    ret,              \* the response of the last operation, with the call it answers
    supplied,         \* history: per lesson row, the timeSpent deltas supplied since the row was created
    calls,            \* the calls in progress between two of their store statements, by slot
    tracker           \* the session time tracker of the renderer (useTimeTracker) and its onSave calls

vars == <<users, modules, user_progress, lesson_progress, certificates,
          certSeq, now, ret, supplied, calls, tracker>>

db == <<users, modules, user_progress, lesson_progress, certificates, certSeq>>

----------------------------------------------------------------------------
(* Bounds of the model *)

MaxNow == 1          \* the clock runs over 0..MaxNow
MaxTimeSpent == 3    \* a call is issued only while time_spent stays <= MaxTimeSpent
MaxClock == 2        \* the clock of the tracker's session runs over 0..MaxClock seconds
MaxSaves == 2        \* the onSave calls one tracker session issues

NULL == 0 - 1

----------------------------------------------------------------------------
(* Lesson ids and the SQL LIKE prefix patterns *)

LessonPrefix == <<"l", "e", "s", "s", "o", "n", "-">>
QuizPrefix == <<"q", "u", "i", "z", "-">>

L1 == LessonPrefix \o <<"1">>
L2 == LessonPrefix \o <<"2">>
L3 == LessonPrefix \o <<"3">>
L4 == LessonPrefix \o <<"4">>
Q1 == QuizPrefix \o <<"1">>

RECURSIVE Decimal(_)
\* The decimal digits of i >= 0, as a template string `${i}` writes them
Decimal(i) ==
    LET digit == <<"0", "1", "2", "3", "4", "5", "6", "7", "8", "9">>[(i % 10) + 1]
    IN  IF i < 10 THEN <<digit>> ELSE Decimal(i \div 10) \o <<digit>>

\* The id of the i-th lesson: "lesson-1", "lesson-2", etc.
LessonId(i) == LessonPrefix \o Decimal(i)

\* SQLite's LIKE folds the case of ASCII letters
Fold(c) ==
    CASE c = "L" -> "l" [] c = "E" -> "e" [] c = "S" -> "s" [] c = "O" -> "o"
      [] c = "N" -> "n" [] c = "Q" -> "q" [] c = "U" -> "u" [] c = "I" -> "i"
      [] c = "Z" -> "z" [] c = "T" -> "t" [] c = "R" -> "r" [] OTHER -> c

\* id LIKE "<prefix>%"
LikePrefix(id, prefix) ==
    /\ Len(id) >= Len(prefix)
    /\ \A i \in 1..Len(prefix) : Fold(id[i]) = Fold(prefix[i])

----------------------------------------------------------------------------
(* Arithmetic *)

RECURSIVE SumOver(_, _)
\* the sum of f[x] over the finite set S
SumOver(S, f) ==
    IF S = {} THEN 0
    ELSE LET x == CHOOSE y \in S : TRUE IN f[x] + SumOver(S \ {x}, f)

(* JavaScript numbers are IEEE-754 doubles.  A double is written here as      *)
(* <<l0, l1, l2, l3, k>>: the integer l0 + l1*Radix + l2*Radix^2 + l3*Radix^3 *)
(* (limbs below Radix, 53 significant bits) times 2^(k - 54).                 *)

Radix == 2^18

RECURSIVE Normalise(_, _, _)
\* n/d scaled by powers of two into [1, 2): the result <<n1, d1, k>> has
\* n/d = (n1/d1) * 2^k and d1 <= n1 < 2*d1  (n > 0, d > 0)
Normalise(n, d, k) ==
    IF n < d THEN Normalise(2 * n, d, k - 1)
    ELSE IF n >= 2 * d THEN Normalise(n, 2 * d, k + 1)
    ELSE <<n, d, k>>

\* The limbs brought back below Radix, the carries moved upwards
Carry(limbs) ==
    LET c1 == limbs[1] \div Radix
        c2 == (limbs[2] + c1) \div Radix
        c3 == (limbs[3] + c2) \div Radix
    IN  <<limbs[1] % Radix, (limbs[2] + c1) % Radix, (limbs[3] + c2) % Radix, limbs[4] + c3>>

\* Round to nearest, ties to even: the bits below `unit` are dropped; sticky tells
\* that nonzero bits lie below the lowest limb
RoundLow(limbs, unit, sticky) ==
    LET low == limbs[1] % unit
        half == unit \div 2
        up == \/ low > half
              \/ low = half /\ (sticky \/ (limbs[1] \div unit) % 2 = 1)
    IN  Carry([limbs EXCEPT ![1] = limbs[1] - low + (IF up THEN unit ELSE 0)])

\* The double totalCompleted / totalItems (both > 0): 54 quotient bits below the
\* leading one, rounded to 52
Divide(c, t) ==
    LET nd == Normalise(c, t, 0)
        d == nd[2]
        r0 == nd[1] - d
        f1 == (r0 * Radix) \div d
        r1 == (r0 * Radix) % d
        f2 == (r1 * Radix) \div d
        r2 == (r1 * Radix) % d
        f3 == (r2 * Radix) \div d
        r3 == (r2 * Radix) % d
        m == RoundLow(<<f3, f2, f1, 1>>, 4, r3 # 0)
    IN  IF m[4] = 2 THEN <<0, 0, 0, 1, nd[3] + 1>> ELSE m \o <<nd[3]>>

\* The double q * 100: the exact product, rounded to 53 significant bits
Times100(q) ==
    LET p == Carry(<<100 * q[1], 100 * q[2], 100 * q[3], 100 * q[4]>>)
    IN  RoundLow(p, IF p[4] < 128 THEN 2^8 ELSE 2^9, FALSE) \o <<q[5]>>

\* Math.round(y) = floor(y + 1/2), for 0 < y < 2^24
MathRound(y) ==
    LET h == 2 * (y[4] * Radix + y[3]) + y[2] \div 2^17
        sh == 18 - y[5]
    IN  IF sh > 28 THEN 0 ELSE (h \div 2^sh + 1) \div 2

\* Math.round((totalCompleted / totalItems) * 100), totalItems > 0
RoundPct(totalCompleted, totalItems) ==
    IF totalCompleted = 0 THEN 0
    ELSE MathRound(Times100(Divide(totalCompleted, totalItems)))

----------------------------------------------------------------------------
(* Rows *)

UserProgressRow(u, m, t) ==
    [user_id |-> u, module_id |-> m, progress_percentage |-> 0, completed |-> FALSE,
     started_at |-> t, completion_date |-> NULL, last_accessed |-> t]

LessonProgressRow(u, m, l, c, ts, q, t) ==
    [user_id |-> u, module_id |-> m, lesson_id |-> l, completed |-> c,
     time_spent |-> ts, quiz_score |-> q, completed_at |-> IF c THEN t ELSE NULL]

\* SELECT * FROM user_progress WHERE user_id = ? AND module_id = ?
SelectUserProgress(up, u, m) == {r \in up : r.user_id = u /\ r.module_id = m}

\* SELECT * FROM lesson_progress WHERE user_id = ? AND module_id = ?
SelectLessons(lp, u, m) == {r \in lp : r.user_id = u /\ r.module_id = m}

\* SELECT * FROM lesson_progress WHERE user_id = ? AND module_id = ? AND lesson_id = ?
SelectLesson(lp, u, m, l) == {r \in SelectLessons(lp, u, m) : r.lesson_id = l}

\* SELECT * FROM modules WHERE id = ?
SelectModule(ms, m) == {r \in ms : r.id = m}

\* SELECT * FROM users WHERE id = ?
SelectUser(us, u) == {r \in us : r.id = u}

\* bcrypt.hash(password, 10): the stored text is not the password, and it carries the
\* password it was derived from (the salt plays no part in what compare answers)
BcryptHash(password) == <<"$2b$10$", password>>

\* bcrypt.compare(password, hash)
BcryptCompare(password, hash) == hash = BcryptHash(password)

\* The admin row of the schema.  Its password_hash is a literal of the schema: an opaque
\* text, which no password the calls supply is taken to match
AdminUser ==
    [id |-> 1, username |-> "admin", email |-> "admin@ourafrica.com",
     password_hash |-> <<"$2b$10$", "rZvKz8Y8qHqFj9K8GfF9.O">>]

\* db.get: the first row of the result, the query's rows being rows
First(rows) == CHOOSE r \in rows : TRUE

----------------------------------------------------------------------------
(* updateModuleCompletionStatus: the aggregate recomputation *)

\* COUNT(*) ... WHERE completed = 1 AND lesson_id LIKE "lesson-%"
CompletedLessons(lp, u, m) ==
    Cardinality({r \in SelectLessons(lp, u, m) :
                    r.completed /\ LikePrefix(r.lesson_id, LessonPrefix)})

\* a count of completed quizzes that finds none
CompletedQuizzes_None(lp, u, m) == 0

\* COUNT(*) ... WHERE completed = 1 AND lesson_id LIKE "quiz-%" AND quiz_score IS NOT NULL
CompletedQuizzes(lp, u, m) ==
    Cardinality({r \in SelectLessons(lp, u, m) :
                    r.completed /\ LikePrefix(r.lesson_id, QuizPrefix) /\ r.quiz_score # NULL})

\* a completion test that looks at the lessons only
IsCompleted_LessonsOnly(completedLessons, completedQuizzes, totalLessons, totalQuizzes) ==
    completedLessons >= totalLessons

\* completedLessons >= totalLessons && completedQuizzes >= totalQuizzes
IsCompleted(completedLessons, completedQuizzes, totalLessons, totalQuizzes) ==
    completedLessons >= totalLessons /\ completedQuizzes >= totalQuizzes

\* completion_date rewritten by every recomputation that finds the module completed
CompletionDate_Always(isCompleted, currentProgress, t) ==
    IF isCompleted THEN t ELSE currentProgress.completion_date

\* isCompleted && !wasAlreadyCompleted ? new Date().toISOString() : currentProgress.completion_date
CompletionDate(isCompleted, currentProgress, t) ==
    IF isCompleted /\ ~currentProgress.completed THEN t ELSE currentProgress.completion_date

\* updateModuleCompletionStatus that recomputes nothing
updateModuleCompletionStatus_Skip(up, lp, ms, u, m, t) == up

\* updateModuleCompletionStatus without the early return on totalItems === 0
\* (0 / 0 is NaN, stored as NULL; 0 >= 0 on both counts makes isCompleted true)
updateModuleCompletionStatus_NoEarlyReturn(up, lp, ms, u, m, t) ==
    IF SelectModule(ms, m) = {} \/ SelectUserProgress(up, u, m) = {} THEN up
    ELSE
      LET module == First(SelectModule(ms, m))
          totalItems == module.content.lessons + module.content.quizzes
          completedLessons == CompletedLessons(lp, u, m)
          completedQuizzes == CompletedQuizzes(lp, u, m)
          current == SelectUserProgress(up, u, m)
          isCompleted == IsCompleted(completedLessons, completedQuizzes,
                                     module.content.lessons, module.content.quizzes)
      IN  (up \ current) \cup
            {[r EXCEPT !.progress_percentage =
                           IF totalItems = 0 THEN NULL
                           ELSE RoundPct(completedLessons + completedQuizzes, totalItems),
                       !.completed = isCompleted,
                       !.completion_date = CompletionDate(isCompleted, First(current), t)]
               : r \in current}

\* The user_progress table after updateModuleCompletionStatus(u, m) at time t
updateModuleCompletionStatus(up, lp, ms, u, m, t) ==
    IF SelectModule(ms, m) = {} THEN up
    ELSE
      LET module == First(SelectModule(ms, m))
          totalLessons == module.content.lessons
          totalQuizzes == module.content.quizzes
          totalItems == totalLessons + totalQuizzes
          completedLessons == CompletedLessons(lp, u, m)
          completedQuizzes == CompletedQuizzes(lp, u, m)
          totalCompleted == completedLessons + completedQuizzes
          current == SelectUserProgress(up, u, m)
      IN  IF totalItems = 0 \/ current = {} THEN up
          ELSE
            LET progressPercentage == RoundPct(totalCompleted, totalItems)
                isCompleted == IsCompleted(completedLessons, completedQuizzes,
                                           totalLessons, totalQuizzes)
                completionDate == CompletionDate(isCompleted, First(current), t)
            IN  (up \ current) \cup
                  {[r EXCEPT !.progress_percentage = progressPercentage,
                             !.completed = isCompleted,
                             !.completion_date = completionDate] : r \in current}

----------------------------------------------------------------------------
(* updateLessonProgress *)

\* the touch of an existing module-level row also restarts started_at
TouchUserProgress_Restarts(up, u, m, t) ==
    IF SelectUserProgress(up, u, m) = {}
    THEN up \cup {UserProgressRow(u, m, t)}
    ELSE (up \ SelectUserProgress(up, u, m)) \cup
           {[r EXCEPT !.started_at = t, !.last_accessed = t] : r \in SelectUserProgress(up, u, m)}

\* Lines 374-397: create the module-level row on the first interaction, else touch it
TouchUserProgress(up, u, m, t) ==
    IF SelectUserProgress(up, u, m) = {}
    THEN up \cup {UserProgressRow(u, m, t)}
    ELSE (up \ SelectUserProgress(up, u, m)) \cup
           {[r EXCEPT !.last_accessed = t] : r \in SelectUserProgress(up, u, m)}

\* time_spent overwritten instead of accumulated
NewTimeSpent_Overwrites(existing, ts) == ts

\* (existing.time_spent || 0) + progressData.timeSpent
NewTimeSpent(existing, ts) == (IF existing.time_spent = NULL THEN 0 ELSE existing.time_spent) + ts

\* completed OR-ed with the prior flag instead of replaced
NewCompleted_Or(existing, c) == existing.completed \/ c

\* Line 411: the UPDATE binds progressData.completed
NewCompleted(existing, c) == c

\* a supplied score of 0 treated as absent (quizScore || existing.quiz_score)
NewQuizScore_ZeroIsAbsent(existing, q) == IF q # NULL /\ q # 0 THEN q ELSE existing.quiz_score

\* Line 413: progressData.quizScore !== undefined ? progressData.quizScore : existing.quiz_score
NewQuizScore(existing, q) == IF q # NULL THEN q ELSE existing.quiz_score

\* Lines 399-434: update the lesson row (accumulating time_spent) or insert it
UpsertLesson(lp, u, m, l, c, ts, q, t) ==
    LET existing == SelectLesson(lp, u, m, l)
    IN  IF existing # {}
        THEN LET e == First(existing)
             IN  (lp \ existing) \cup
                   {[r EXCEPT !.completed = NewCompleted(e, c),
                              !.time_spent = NewTimeSpent(e, ts),
                              !.quiz_score = NewQuizScore(e, q),
                              !.completed_at = IF c THEN t ELSE e.completed_at]
                      : r \in existing}
        ELSE lp \cup {LessonProgressRow(u, m, l, c, ts, q, t)}

\* The key of a lesson row
Key(u, m, l) == <<u, m, l>>

\* The timeSpent a call may still supply to the row of (u, m, l) within the model's bound
WithinTimeBound(u, m, l, ts) ==
    \A r \in SelectLesson(lesson_progress, u, m, l) : r.time_spent + ts <= MaxTimeSpent

updateLessonProgress(u, m, l, c, ts, q) ==
    /\ WithinTimeBound(u, m, l, ts)
    /\ LET up1 == TouchUserProgress(user_progress, u, m, now)
           lp1 == UpsertLesson(lesson_progress, u, m, l, c, ts, q, now)
           up2 == updateModuleCompletionStatus(up1, lp1, modules, u, m, now)
           updatedProgress == SelectLesson(lp1, u, m, l)
       IN  /\ user_progress' = up2
           /\ lesson_progress' = lp1
           /\ ret' = [op |-> "updateLessonProgress", userId |-> u, moduleId |-> m,
                      lessonId |-> l, success |-> updatedProgress # {},
                      error |-> IF updatedProgress # {} THEN "" ELSE "Failed to retrieve updated progress",
                      data |-> updatedProgress]
    /\ supplied' = [k \in DOMAIN supplied \cup {Key(u, m, l)} |->
                      IF k = Key(u, m, l)
                      THEN (IF k \in DOMAIN supplied THEN supplied[k] ELSE 0) + ts
                      ELSE supplied[k]]
    /\ UNCHANGED <<tracker, users, modules, certificates, certSeq, now, calls>>

----------------------------------------------------------------------------
(* resetModuleProgress and getModuleProgress *)

\* resetModuleProgress that also deletes the pair's certificates
resetModuleProgress_DropsCertificates(u, m) ==
    /\ user_progress' = user_progress \ SelectUserProgress(user_progress, u, m)
    /\ lesson_progress' = lesson_progress \ SelectLessons(lesson_progress, u, m)
    /\ certificates' = {c \in certificates : ~(c.user_id = u /\ c.module_id = m)}
    /\ ret' = [op |-> "resetModuleProgress", userId |-> u, moduleId |-> m,
               success |-> TRUE, error |-> "",
               changes |-> Cardinality(SelectLessons(lesson_progress, u, m))]
    /\ supplied' = [k \in {x \in DOMAIN supplied : ~(x[1] = u /\ x[2] = m)} |-> supplied[k]]
    /\ UNCHANGED <<tracker, users, modules, certSeq, now, calls>>

\* resetModuleProgress whose DELETE statements leave out the module_id condition
resetModuleProgress_AllModules(u, m) ==
    /\ user_progress' = {r \in user_progress : r.user_id # u}
    /\ lesson_progress' = {r \in lesson_progress : r.user_id # u}
    /\ ret' = [op |-> "resetModuleProgress", userId |-> u, moduleId |-> m,
               success |-> TRUE, error |-> "",
               changes |-> Cardinality({r \in lesson_progress : r.user_id = u})]
    /\ supplied' = [k \in {x \in DOMAIN supplied : x[1] # u} |-> supplied[k]]
    /\ UNCHANGED <<tracker, users, modules, certificates, certSeq, now, calls>>

\* resetModuleProgress that forgets the second DELETE
resetModuleProgress_KeepsLessons(u, m) ==
    /\ user_progress' = user_progress \ SelectUserProgress(user_progress, u, m)
    /\ ret' = [op |-> "resetModuleProgress", userId |-> u, moduleId |-> m,
               success |-> TRUE, error |-> "",
               changes |-> Cardinality(SelectLessons(lesson_progress, u, m))]
    /\ UNCHANGED <<tracker, users, modules, lesson_progress, certificates, certSeq, now, supplied, calls>>

resetModuleProgress(u, m) ==
    /\ user_progress' = user_progress \ SelectUserProgress(user_progress, u, m)
    /\ lesson_progress' = lesson_progress \ SelectLessons(lesson_progress, u, m)
    /\ ret' = [op |-> "resetModuleProgress", userId |-> u, moduleId |-> m,
               success |-> TRUE, error |-> "",
               changes |-> Cardinality(SelectLessons(lesson_progress, u, m))]
    /\ supplied' = [k \in {x \in DOMAIN supplied : ~(x[1] = u /\ x[2] = m)} |-> supplied[k]]
    /\ UNCHANGED <<tracker, users, modules, certificates, certSeq, now, calls>>

getModuleProgress(u, m) ==
    /\ ret' = [op |-> "getModuleProgress", userId |-> u, moduleId |-> m,
               moduleProgress |-> SelectUserProgress(user_progress, u, m),
               lessonProgress |-> SelectLessons(lesson_progress, u, m)]
    /\ UNCHANGED <<tracker, db, now, supplied, calls>>

----------------------------------------------------------------------------
(* generateCertificate and verifyCertificate *)

\* the same SELECT without the completed = 1 condition
SelectCompleted_All(lp, u, m) == SelectLessons(lp, u, m)

\* SELECT * FROM lesson_progress WHERE user_id = ? AND module_id = ? AND completed = 1
SelectCompleted(lp, u, m) == {r \in SelectLessons(lp, u, m) : r.completed}

\* a threshold of all the lessons instead of 80% of them
BelowThreshold_AllLessons(count, totalLessons) == count < totalLessons

\* lessonProgress.length < lessons.length * 0.8, in tenths
BelowThreshold(count, totalLessons) == count * 10 < totalLessons * 8

\* a code made of the prefix and the timestamp only
CertificateCode_TimeOnly(t, u, m) == <<"C", "E", "R", "T", "-">> \o Decimal(t)

\* `CERT-${Date.now()}-${userId}-${moduleId}`, the characters of the string
CertificateCode(t, u, m) ==
    <<"C", "E", "R", "T", "-">> \o Decimal(t) \o <<"-">> \o Decimal(u) \o <<"-">> \o Decimal(m)

\* lessonProgress.reduce((total, p) => total + (p.time_spent || 0), 0)
TotalTimeSpent(rows) ==
    SumOver(rows, [r \in rows |-> IF r.time_spent = NULL THEN 0 ELSE r.time_spent])

\* a certificates table without its UNIQUE (user_id, module_id)
CertificateUnique_CodeOnly(certs, row) ==
    \A c \in certs : c.certificate_code # row.certificate_code

\* The schema's UNIQUE (user_id, module_id) and certificate_code UNIQUE
CertificateUnique(certs, row) ==
    /\ \A c \in certs : ~(c.user_id = row.user_id /\ c.module_id = row.module_id)
    /\ \A c \in certs : c.certificate_code # row.certificate_code

\* a lookup that returns the certificates whatever the code
SelectCertificateByCode_Any(certs, code) == certs

\* SELECT * FROM certificates WHERE certificate_code = ?
SelectCertificateByCode(certs, code) == {c \in certs : c.certificate_code = code}

\* The response of generateCertificate that answers a failed check
GenerateFailure(u, m, msg) ==
    [op |-> "generateCertificate", userId |-> u, moduleId |-> m,
     success |-> FALSE, error |-> msg, data |-> {}]

\* The response of generateCertificate that returns the row read back by its id
GenerateResult(u, m, newCertificate) ==
    IF newCertificate # {}
    THEN [op |-> "generateCertificate", userId |-> u, moduleId |-> m,
          success |-> TRUE, error |-> "", data |-> newCertificate]
    ELSE GenerateFailure(u, m, "Failed to retrieve generated certificate")

\* checks that answer a missing module or user as an insufficient completion
GenerateCheck_NotFoundAsIncomplete(lessonProgress, module, user) ==
    IF module = {} \/ user = {} THEN "Module not sufficiently completed"
    ELSE IF BelowThreshold(Cardinality(lessonProgress), First(module).content.lessons)
    THEN "Module not sufficiently completed"
    ELSE ""

\* checks that also ask for a scored quiz row for every quiz of the module
GenerateCheck_RequiresQuiz(lessonProgress, module, user) ==
    IF module = {} \/ user = {} THEN "Module or user not found"
    ELSE IF \/ BelowThreshold(Cardinality(lessonProgress), First(module).content.lessons)
            \/ Cardinality({r \in lessonProgress :
                               LikePrefix(r.lesson_id, QuizPrefix) /\ r.quiz_score # NULL})
                  < First(module).content.quizzes
    THEN "Module not sufficiently completed"
    ELSE ""

\* Lines 561-573: the checks on the rows read, "" when they pass
GenerateCheck(lessonProgress, module, user) ==
    IF module = {} \/ user = {} THEN "Module or user not found"
    ELSE IF BelowThreshold(Cardinality(lessonProgress), First(module).content.lessons)
    THEN "Module not sufficiently completed"
    ELSE ""

\* Lines 579-584: the snapshot stored in certificate_data
CertificateData(lessonProgress, module, user, t) ==
    [user |-> First(user).username,
     module |-> First(module).title,
     completionDate |-> t,
     timeSpent |-> TotalTimeSpent(lessonProgress)]

\* The row the INSERT of lines 586-589 adds at time t, its id from the sequence
CertificateRow(id, u, m, code, data, t) ==
    [id |-> id, user_id |-> u, module_id |-> m, certificate_code |-> code,
     certificate_data |-> data, issued_at |-> t]

\* SELECT * FROM certificates WHERE id = ?
SelectCertificateById(certs, id) == {c \in certs : c.id = id}

\* generateCertificate with no other statement between its own
generateCertificate(u, m) ==
    LET lessonProgress == SelectCompleted(lesson_progress, u, m)
        module == SelectModule(modules, m)
        user == SelectUser(users, u)
        failed == GenerateCheck(lessonProgress, module, user)
    IN
    /\ IF failed # ""
       THEN /\ ret' = GenerateFailure(u, m, failed)
            /\ UNCHANGED <<certificates, certSeq>>
       ELSE LET row == CertificateRow(certSeq + 1, u, m, CertificateCode(now, u, m),
                                      CertificateData(lessonProgress, module, user, now), now)
            IN  IF CertificateUnique(certificates, row)
                THEN /\ certificates' = certificates \cup {row}
                     /\ certSeq' = certSeq + 1
                     /\ ret' = GenerateResult(u, m,
                                  SelectCertificateById(certificates \cup {row}, certSeq + 1))
                ELSE /\ ret' = GenerateFailure(u, m, "Failed to generate certificate")
                     /\ UNCHANGED <<certificates, certSeq>>
    /\ UNCHANGED <<tracker, users, modules, user_progress, lesson_progress, now, supplied, calls>>

\* certificates:verify: the row of the code, or 'Certificate not found' (part_004 lines
\* 243-254)
verifyCertificate(code) ==
    /\ ret' = [op |-> "verifyCertificate", code |-> code,
               success |-> SelectCertificateByCode(certificates, code) # {},
               error |-> IF SelectCertificateByCode(certificates, code) # {} THEN ""
                         ELSE "Certificate not found",
               data |-> SelectCertificateByCode(certificates, code)]
    /\ UNCHANGED <<tracker, db, now, supplied, calls>>

----------------------------------------------------------------------------
(* The clock *)

Tick ==
    /\ now < MaxNow
    /\ now' = now + 1
    /\ UNCHANGED <<tracker, db, ret, supplied, calls>>

----------------------------------------------------------------------------
(* useTimeTracker (src/src/preload/index.d.ts lines 55-209): the session time  *)
(* tracker of a lesson page.  tracker holds the hook's state (isActive,        *)
(* sessionTime), its refs (lastSaveTime, hasUnsavedTime), whether its          *)
(* intervals and listeners are still installed (running), and the onSave       *)
(* calls it has issued, each with the delta passed, the lastSaveTime the delta *)
(* was measured from, the outcome of the promise and the earlier calls whose   *)
(* outcome was known when it was issued.  focused and hidden are the window   *)
(* the hook listens to: whether it has the focus, and document.hidden.  Two    *)
(* more fields are history: sessionSince is the lastSaveTime from which the    *)
(* interval callback measured the current sessionTime, and activity[t + 1]     *)
(* tells whether the window was focused and visible while second t passed,    *)
(* for the seconds before cleanup().                                           *)
(* Every callback runs to its first await in one step; now is the clock in     *)
(* seconds.  The one-second interval runs its callback once for every second   *)
(* that passes (tickDue: the callback for the last second has yet to run).     *)

\* The hook's state after the first render, in a window that is focused and visible
useTimeTracker ==
    [isActive |-> TRUE, sessionTime |-> 0, lastSaveTime |-> 0, hasUnsavedTime |-> FALSE,
     running |-> TRUE, onSaveCalls |-> << >>, focused |-> TRUE, hidden |-> FALSE,
     tickDue |-> FALSE,
     sessionSince |-> 0, activity |-> << >>]

\* Date.getTime() of the clock value t, in milliseconds
GetTime(t) == 1000 * t

\* Math.round(ms / 1000): the nearest integer, halves towards plus infinity
RoundSeconds(ms) == (2 * ms + 1000) \div 2000

\* Lines 77-83: the seconds since the last save, 0 while the window is inactive
calculateSessionTime(tr, t) ==
    IF ~tr.isActive THEN 0
    ELSE LET timeSinceLastSave == RoundSeconds(GetTime(t) - GetTime(tr.lastSaveTime))
         IN  IF timeSinceLastSave > 0 THEN timeSinceLastSave ELSE 0

\* The record of an onSave(timeSpent) call just issued, its promise pending.  The delta
\* of an auto-save or a manual save is the sessionTime state, measured by the interval
\* callback; the delta of cleanup is measured by cleanup itself
OnSaveCall(tr, kind, timeSpent) ==
    [kind |-> kind, timeSpent |-> timeSpent,
     since |-> IF kind = "cleanup" THEN tr.lastSaveTime ELSE tr.sessionSince,
     outcome |-> "pending",
     after |-> {i \in DOMAIN tr.onSaveCalls : tr.onSaveCalls[i].outcome # "pending"}]

\* the unsaved-delta flag cleared when onSave is called
IssueOnSave_ClearsFlag(tr, kind, timeSpent) ==
    [tr EXCEPT !.hasUnsavedTime = FALSE,
               !.onSaveCalls = Append(@, OnSaveCall(tr, kind, timeSpent))]

\* await onSave(timeSpent): the call is issued and its promise is pending
IssueOnSave(tr, kind, timeSpent) ==
    [tr EXCEPT !.onSaveCalls = Append(@, OnSaveCall(tr, kind, timeSpent))]

\* One second passes, once the interval callback for the second before has run
Second ==
    /\ now < MaxClock
    /\ ~tracker.tickDue
    /\ now' = now + 1
    /\ tracker' = IF tracker.running
                  THEN [tracker EXCEPT !.tickDue = TRUE,
                                       !.activity = Append(@, tracker.focused /\ ~tracker.hidden)]
                  ELSE tracker
    /\ UNCHANGED <<db, ret, supplied, calls>>

\* Lines 86-100: the callback of the one-second interval
IntervalTick ==
    /\ tracker.running /\ tracker.tickDue
    /\ LET newSessionTime == calculateSessionTime(tracker, now)
       IN  tracker' = IF tracker.isActive
                      THEN [tracker EXCEPT !.tickDue = FALSE,
                                           !.sessionTime = newSessionTime,
                                           !.hasUnsavedTime = newSessionTime > 0,
                                           !.sessionSince = tracker.lastSaveTime]
                      ELSE [tracker EXCEPT !.tickDue = FALSE]
    /\ UNCHANGED <<db, now, ret, supplied, calls>>

\* Lines 102-123: the callback of the auto-save interval, up to its await
AutoSave ==
    /\ tracker.running
    /\ tracker.hasUnsavedTime /\ tracker.sessionTime > 0
    /\ Len(tracker.onSaveCalls) < MaxSaves
    /\ tracker' = IssueOnSave(tracker, "auto", tracker.sessionTime)
    /\ UNCHANGED <<db, now, ret, supplied, calls>>

\* Lines 158-170: saveProgress(), up to its await
saveProgress ==
    /\ tracker.running
    /\ tracker.hasUnsavedTime /\ tracker.sessionTime > 0
    /\ Len(tracker.onSaveCalls) < MaxSaves
    /\ tracker' = IssueOnSave(tracker, "manual", tracker.sessionTime)
    /\ UNCHANGED <<db, now, ret, supplied, calls>>

\* The promise of onSave call i resolves: auto-save and saveProgress go on after their
\* await (lines 108-110 and 162-164); cleanup has nothing after it (line 193)
OnSaveResolves(i) ==
    /\ i \in DOMAIN tracker.onSaveCalls
    /\ tracker.onSaveCalls[i].outcome = "pending"
    /\ tracker' = IF tracker.onSaveCalls[i].kind = "cleanup"
                  THEN [tracker EXCEPT !.onSaveCalls[i].outcome = "resolved"]
                  ELSE [tracker EXCEPT !.lastSaveTime = now,
                                       !.hasUnsavedTime = FALSE,
                                       !.onSaveCalls[i].outcome = "resolved"]
    /\ UNCHANGED <<db, now, ret, supplied, calls>>

\* The promise of onSave call i rejects: the catch blocks log the error (lines 111-113,
\* 194-196), saveProgress throws it again (lines 165-168)
OnSaveRejects(i) ==
    /\ i \in DOMAIN tracker.onSaveCalls
    /\ tracker.onSaveCalls[i].outcome = "pending"
    /\ tracker' = [tracker EXCEPT !.onSaveCalls[i].outcome = "rejected"]
    /\ UNCHANGED <<db, now, ret, supplied, calls>>

\* Lines 127-131: the window gets the focus
handleFocus ==
    /\ tracker.running /\ ~tracker.focused
    /\ tracker' = [tracker EXCEPT !.focused = TRUE, !.isActive = TRUE, !.lastSaveTime = now]
    /\ UNCHANGED <<db, now, ret, supplied, calls>>

\* Lines 133-135: the window loses the focus
handleBlur ==
    /\ tracker.running /\ tracker.focused
    /\ tracker' = [tracker EXCEPT !.focused = FALSE, !.isActive = FALSE]
    /\ UNCHANGED <<db, now, ret, supplied, calls>>

\* Lines 137-144: document.hidden has become hidden
handleVisibilityChange(hidden) ==
    /\ tracker.running /\ hidden # tracker.hidden
    /\ tracker' = IF hidden THEN [tracker EXCEPT !.hidden = TRUE, !.isActive = FALSE]
                  ELSE [tracker EXCEPT !.hidden = FALSE, !.isActive = TRUE,
                                       !.lastSaveTime = now]
    /\ UNCHANGED <<db, now, ret, supplied, calls>>

\* Lines 172-178
resetTracker ==
    /\ tracker.running
    /\ tracker' = [tracker EXCEPT !.lastSaveTime = now, !.sessionTime = 0,
                                  !.hasUnsavedTime = FALSE, !.sessionSince = now]
    /\ UNCHANGED <<db, now, ret, supplied, calls>>

\* Lines 180-199: cleanup(), up to its await: the intervals are cleared and the time
\* since the last save is offered once more
cleanup ==
    /\ tracker.running
    /\ LET currentSessionTime == calculateSessionTime(tracker, now)
           stopped == [tracker EXCEPT !.running = FALSE, !.tickDue = FALSE]
       IN  IF tracker.hasUnsavedTime /\ currentSessionTime > 0
           THEN /\ Len(tracker.onSaveCalls) < MaxSaves
                /\ tracker' = IssueOnSave(stopped, "cleanup", currentSessionTime)
           ELSE tracker' = stopped
    /\ UNCHANGED <<db, now, ret, supplied, calls>>

----------------------------------------------------------------------------
(* The state after initialize(): the tables are dropped and created again,  *)
(* the schema inserts the admin user, and loadSampleModule() creates module *)
(* 1 from the sample file, whose content is one of `contents`.              *)

Content(nl, nq) == [lessons |-> nl, quizzes |-> nq]

\* The slots of the calls that may be in progress at once, and a free slot
Slots == {1, 2}
Idle == [pc |-> "idle"]

InitWith(contents) ==
    /\ users = {AdminUser}
    /\ \E content \in contents :
          modules = {[id |-> 1, title |-> "Algorithms", content |-> content]}
    /\ user_progress = {}
    /\ lesson_progress = {}
    /\ certificates = {}
    /\ certSeq = 0
    /\ now = 0
    /\ ret = [op |-> "none"]
    /\ supplied = << >>
    /\ calls = [p \in Slots |-> Idle]
    /\ tracker = useTimeTracker

----------------------------------------------------------------------------
(* The calls, with their arguments drawn from sets *)

UserIds == {1}
ModuleIds == {1}
Codes == {CertificateCode(t, u, m) : t \in 0..MaxNow, u \in UserIds, m \in ModuleIds}

\* a call of updateLessonProgress with <<lessonId, quizScore>> in LQ, completed in C, timeSpent in T
UpdateLessonIn(LQ, C, T) ==
    \E u \in UserIds, m \in ModuleIds, lq \in LQ, c \in C, ts \in T :
        updateLessonProgress(u, m, lq[1], c, ts, lq[2])

ResetModule == \E u \in UserIds, m \in ModuleIds : resetModuleProgress(u, m)

GetProgress == \E u \in UserIds, m \in ModuleIds : getModuleProgress(u, m)

GenerateCertificate == \E u \in UserIds, m \in ModuleIds : generateCertificate(u, m)

VerifyCertificate == \E code \in Codes : verifyCertificate(code)

----------------------------------------------------------------------------
(* Spec: lesson and quiz outcomes, resets and reads against the aggregate *)

Init == InitWith({Content(1, 0), Content(1, 1), Content(2, 1)})

UpdateLesson ==
    UpdateLessonIn({<<L1, NULL>>, <<L2, NULL>>, <<Q1, NULL>>, <<Q1, 80>>}, BOOLEAN, {0})

Next ==
    \/ UpdateLesson
    \/ ResetModule
    \/ GetProgress
    \/ Tick

Spec == Init /\ [][Next]_vars

----------------------------------------------------------------------------
(* Properties of the aggregate, checked under Spec *)

\* The step is a call of operation op that has answered
Called(op) == ret' # ret /\ ret'.op = op

\* p is n/d rounded to the nearest integer, halves upwards (d > 0)
RoundsTo(p, n, d) == 2 * d * p <= 2 * n + d /\ 2 * n + d < 2 * d * (p + 1)

\* The rows of one (user, module) pair before and after a step that keeps the pair's row
SamePair(r, s) == r.user_id = s.user_id /\ r.module_id = s.module_id

\* C2: after an updateLessonProgress call for a pair whose module has totalItems > 0, the
\* pair's progress_percentage is 100 * (completedLessons + completedQuizzes) / totalItems,
\* rounded
C2_PercentageIsRoundedRatio ==
    ret.op = "updateLessonProgress" =>
        \A mod \in SelectModule(modules, ret.moduleId) :
            mod.content.lessons + mod.content.quizzes > 0 =>
                /\ SelectUserProgress(user_progress, ret.userId, ret.moduleId) # {}
                /\ \A r \in SelectUserProgress(user_progress, ret.userId, ret.moduleId) :
                      RoundsTo(r.progress_percentage,
                               100 * (CompletedLessons(lesson_progress, ret.userId, ret.moduleId)
                                      + CompletedQuizzes(lesson_progress, ret.userId, ret.moduleId)),
                               mod.content.lessons + mod.content.quizzes)

\* C3: every user_progress row has progress_percentage in 0..100
C3_PercentageInRange ==
    \A r \in user_progress : 0 <= r.progress_percentage /\ r.progress_percentage <= 100

\* C4: between resets, a user_progress row whose completed flag is true keeps it true
\* (so the flag goes from false to true at most once)
C4_CompletedMonotonic ==
    [][\A r \in user_progress : \A s \in user_progress' :
          SamePair(r, s) /\ r.completed => s.completed]_vars

\* C5: between resets, completion_date is null while the module was never completed,
\* is set to the time of the call that makes the module completed, and from then on
\* keeps its value
C5_CompletionDateStable ==
    [][\A r \in user_progress : \A s \in user_progress' :
          SamePair(r, s) =>
             /\ r.completion_date # NULL => s.completion_date = r.completion_date
             /\ (r.completion_date = NULL /\ s.completion_date # NULL) =>
                   (~r.completed /\ s.completed /\ s.completion_date = now)
             /\ (r.completion_date = NULL /\ s.completed) => s.completion_date # NULL]_vars

\* C13: after an updateLessonProgress call for a pair whose module has totalItems > 0, the
\* pair's completed flag is true exactly when completedLessons >= totalLessons and
\* completedQuizzes >= totalQuizzes, the totals being those of the module's content
C13_CompletedIffAllDone ==
    ret.op = "updateLessonProgress" =>
        \A mod \in SelectModule(modules, ret.moduleId) :
            mod.content.lessons + mod.content.quizzes > 0 =>
                /\ SelectUserProgress(user_progress, ret.userId, ret.moduleId) # {}
                /\ \A r \in SelectUserProgress(user_progress, ret.userId, ret.moduleId) :
                      r.completed <=>
                         /\ CompletedLessons(lesson_progress, ret.userId, ret.moduleId)
                               >= mod.content.lessons
                         /\ CompletedQuizzes(lesson_progress, ret.userId, ret.moduleId)
                               >= mod.content.quizzes

\* C13 witness: a module with two lessons and a quiz is completed by the call that
\* completes the quiz
C13_Witness ==
    /\ ret.op = "updateLessonProgress"
    /\ ret.lessonId = Q1
    /\ \E mod \in modules : mod.content = Content(2, 1)
    /\ \E r \in user_progress : r.completed /\ r.completion_date = MaxNow

\* The lesson rows of one (user, module, lesson id) before and after a step
SameLesson(r, s) == SamePair(r, s) /\ r.lesson_id = s.lesson_id

\* C21: when an existing lesson row is saved again, completed_at becomes the current time
\* only if the row goes from not completed to completed; otherwise it keeps its value
\* (a completed row saved again as completed keeps its original completed_at)
C21_CompletedAtSetOnce ==
    [][\A r \in lesson_progress : \A s \in lesson_progress' :
          SameLesson(r, s) =>
             s.completed_at = IF ~r.completed /\ s.completed THEN now ELSE r.completed_at]_vars

\* C9: resetModuleProgress(u, m) leaves no user_progress and no lesson_progress row of
\* (u, m), and a getModuleProgress(u, m) that follows it returns no module progress
\* and an empty lesson list
C9_ResetRemovesAll ==
    [][/\ Called("resetModuleProgress") =>
             /\ SelectUserProgress(user_progress', ret'.userId, ret'.moduleId) = {}
             /\ SelectLessons(lesson_progress', ret'.userId, ret'.moduleId) = {}
       /\ (/\ ret.op = "resetModuleProgress"
           /\ Called("getModuleProgress")
           /\ ret'.userId = ret.userId /\ ret'.moduleId = ret.moduleId) =>
             /\ ret'.moduleProgress = {}
             /\ ret'.lessonProgress = {}]_vars

\* C9 witness: a reset has removed the module row and lesson rows of a pair
C9_Witness ==
    /\ ret.op = "resetModuleProgress"
    /\ ret.changes >= 2
    /\ user_progress = {}

\* C35: in every reachable state a user_progress row has a non-null completion_date
\* exactly when its completed flag is true
C35_CompletionDateIffCompleted ==
    \A mp \in user_progress : (mp.completion_date # NULL) <=> mp.completed

----------------------------------------------------------------------------
(* SpecBig: a learner who completes the lessons of a 40-item module in order *)

InitBig == InitWith({Content(40, 0), Content(39, 1)})

\* The next lesson of the module is completed
UpdateLessonBig ==
    \E u \in UserIds, m \in ModuleIds :
        \E mod \in SelectModule(modules, m) :
            \E i \in 1..mod.content.lessons :
                /\ i = Cardinality(SelectLessons(lesson_progress, u, m)) + 1
                /\ updateLessonProgress(u, m, LessonId(i), TRUE, 0, NULL)

NextBig ==
    \/ UpdateLessonBig
    \/ ResetModule
    \/ Tick

SpecBig == InitBig /\ [][NextBig]_vars

----------------------------------------------------------------------------
(* SpecTime: time-spent deltas accumulated over repeated saves and resets *)

InitTime == InitWith({Content(1, 1)})

UpdateLessonTime == UpdateLessonIn({<<L1, NULL>>, <<Q1, 80>>}, BOOLEAN, {0, 1, 2})

NextTime ==
    \/ UpdateLessonTime
    \/ ResetModule
    \/ Tick

SpecTime == InitTime /\ [][NextTime]_vars

\* C1: the time_spent of a lesson row is the sum of the timeSpent deltas supplied by the
\* calls for its (user, module, lesson id) since the row was created
C1_TimeSpentAccumulates ==
    \A r \in lesson_progress :
        /\ Key(r.user_id, r.module_id, r.lesson_id) \in DOMAIN supplied
        /\ r.time_spent = supplied[Key(r.user_id, r.module_id, r.lesson_id)]

\* C1 witness: a row that holds the sum of the deltas of several calls
C1_Witness ==
    \E r \in lesson_progress :
        /\ r.time_spent = MaxTimeSpent
        /\ supplied[Key(r.user_id, r.module_id, r.lesson_id)] = MaxTimeSpent

----------------------------------------------------------------------------
(* SpecCert: the certificate threshold against the lesson and quiz rows *)

InitCert == InitWith({Content(2, 1), Content(5, 1)})

UpdateLessonCert ==
    UpdateLessonIn({<<L1, NULL>>, <<L2, NULL>>, <<L3, NULL>>, <<L4, NULL>>, <<Q1, 80>>},
                   {TRUE}, {0})

NextCert ==
    \/ UpdateLessonCert
    \/ ResetModule
    \/ GenerateCertificate
    \/ VerifyCertificate

SpecCert == InitCert /\ [][NextCert]_vars

\* The user's completed lessons of the module are fewer than 80% of the module's lessons
FewerThan80Percent(u, m) ==
    \E mod \in SelectModule(modules, m) :
        CompletedLessons(lesson_progress, u, m) * 10 < mod.content.lessons * 8

\* C6: generateCertificate(u, m) answers 'Module not sufficiently completed' and inserts
\* no certificate whenever the user's completed lessons are fewer than 80% of the
\* module's lessons
C6_FailsBelowThreshold ==
    [][(Called("generateCertificate") /\ FewerThan80Percent(ret'.userId, ret'.moduleId)) =>
          /\ ~ret'.success
          /\ ret'.error = "Module not sufficiently completed"
          /\ certificates' = certificates]_vars

\* C7: with the user and the module present, no certificate of the pair and at least 80%
\* of the lessons completed, generateCertificate succeeds, inserts exactly one
\* certificate row, of that pair, and returns it
C7_SucceedsAtThreshold ==
    [][(/\ Called("generateCertificate")
        /\ SelectUser(users, ret'.userId) # {}
        /\ SelectModule(modules, ret'.moduleId) # {}
        /\ \A c \in certificates : ~(c.user_id = ret'.userId /\ c.module_id = ret'.moduleId)
        /\ ~FewerThan80Percent(ret'.userId, ret'.moduleId)) =>
          /\ ret'.success
          /\ Cardinality(ret'.data) = 1
          /\ ret'.data \cap certificates = {}
          /\ certificates' = certificates \cup ret'.data
          /\ \A c \in ret'.data : c.user_id = ret'.userId /\ c.module_id = ret'.moduleId]_vars

\* C7 witness: a certificate issued with four of the module's five lessons completed
C7_Witness ==
    /\ ret.op = "generateCertificate"
    /\ ret.success
    /\ ret.data \subseteq certificates
    /\ \E mod \in SelectModule(modules, ret.moduleId) : mod.content.lessons = 5
    /\ CompletedLessons(lesson_progress, ret.userId, ret.moduleId) = 4

\* C27: the certificate threshold does not depend on the module-level completed flag nor
\* on quiz results: with at least 80% of the lessons completed, generateCertificate
\* succeeds although the module-level row is not completed and the pair has no quiz row
C27_ThresholdIgnoresFlagAndQuizzes ==
    [][(/\ Called("generateCertificate")
        /\ SelectUser(users, ret'.userId) # {}
        /\ SelectModule(modules, ret'.moduleId) # {}
        /\ \A c \in certificates : ~(c.user_id = ret'.userId /\ c.module_id = ret'.moduleId)
        /\ ~FewerThan80Percent(ret'.userId, ret'.moduleId)
        /\ \A r \in SelectUserProgress(user_progress, ret'.userId, ret'.moduleId) : ~r.completed
        /\ \A s \in SelectLessons(lesson_progress, ret'.userId, ret'.moduleId) :
              ~LikePrefix(s.lesson_id, QuizPrefix)) =>
          /\ ret'.success
          /\ \E c \in certificates' \ certificates :
                c.user_id = ret'.userId /\ c.module_id = ret'.moduleId]_vars

\* C27 witness: a certificate issued for a module with a quiz while the module-level row
\* is not completed and no quiz row exists
C27_Witness ==
    /\ ret.op = "generateCertificate"
    /\ ret.success
    /\ ret.data \subseteq certificates
    /\ \E mod \in SelectModule(modules, ret.moduleId) : mod.content.quizzes = 1
    /\ \E r \in SelectUserProgress(user_progress, ret.userId, ret.moduleId) :
          ~r.completed /\ r.progress_percentage < 100
    /\ \A s \in SelectLessons(lesson_progress, ret.userId, ret.moduleId) :
          ~LikePrefix(s.lesson_id, QuizPrefix)

\* C18: verifyCertificate(code) returns the certificate whose certificate_code is code
\* when there is one, in particular the one a successful generateCertificate has just
\* returned, and answers 'Certificate not found' when there is none
C18_VerifyFindsByCode ==
    [][/\ Called("verifyCertificate") =>
             IF \E c \in certificates : c.certificate_code = ret'.code
             THEN /\ ret'.success
                  /\ Cardinality(ret'.data) = 1
                  /\ ret'.data = {c \in certificates : c.certificate_code = ret'.code}
             ELSE /\ ~ret'.success
                  /\ ret'.error = "Certificate not found"
                  /\ ret'.data = {}
       /\ (/\ ret.op = "generateCertificate" /\ ret.success
           /\ Called("verifyCertificate")
           /\ \E c \in ret.data : c.certificate_code = ret'.code) =>
             ret'.data = ret.data]_vars

\* C18 witness: the certificate of a module of five lessons is found by its code
C18_Witness ==
    /\ ret.op = "verifyCertificate"
    /\ ret.success
    /\ \E c \in ret.data : c \in certificates /\ c.certificate_code = ret.code
    /\ \E mod \in modules : mod.content.lessons = 5

----------------------------------------------------------------------------
(* SpecConc: generateCertificate calls that overlap.  Each call runs one    *)
(* store statement at a time (the awaits of lines 553-594); the statements *)
(* of two calls, and whole other operations, run in any order between them. *)

\* Line 553: the completed rows of the pair are read
GenQueryLessons(p, u, m) ==
    /\ calls[p] = Idle
    /\ calls' = [calls EXCEPT ![p] =
                    [pc |-> "getModule", userId |-> u, moduleId |-> m,
                     lessonProgress |-> SelectCompleted(lesson_progress, u, m)]]
    /\ UNCHANGED <<tracker, db, now, ret, supplied>>

\* Line 558: the module row is read
GenGetModule(p) ==
    /\ calls[p].pc = "getModule"
    /\ calls' = [calls EXCEPT ![p] =
                    [pc |-> "getUser", userId |-> calls[p].userId,
                     moduleId |-> calls[p].moduleId,
                     lessonProgress |-> calls[p].lessonProgress,
                     module |-> SelectModule(modules, calls[p].moduleId)]]
    /\ UNCHANGED <<tracker, db, now, ret, supplied>>

\* Lines 559-589: the user row is read; the checks answer a failure, or the code and
\* the snapshot are computed and the INSERT is issued
GenGetUser(p) ==
    /\ calls[p].pc = "getUser"
    /\ LET c == calls[p]
           user == SelectUser(users, c.userId)
           failed == GenerateCheck(c.lessonProgress, c.module, user)
       IN  IF failed # ""
           THEN /\ ret' = GenerateFailure(c.userId, c.moduleId, failed)
                /\ calls' = [calls EXCEPT ![p] = Idle]
           ELSE /\ calls' = [calls EXCEPT ![p] =
                               [pc |-> "insert", userId |-> c.userId, moduleId |-> c.moduleId,
                                code |-> CertificateCode(now, c.userId, c.moduleId),
                                data |-> CertificateData(c.lessonProgress, c.module, user, now)]]
                /\ UNCHANGED ret
    /\ UNCHANGED <<tracker, db, now, supplied>>

\* Lines 586-589: the INSERT runs against the table as it is then
GenInsert(p) ==
    /\ calls[p].pc = "insert"
    /\ LET c == calls[p]
           row == CertificateRow(certSeq + 1, c.userId, c.moduleId, c.code, c.data, now)
       IN  IF CertificateUnique(certificates, row)
           THEN /\ certificates' = certificates \cup {row}
                /\ certSeq' = certSeq + 1
                /\ calls' = [calls EXCEPT ![p] =
                               [pc |-> "getNew", userId |-> c.userId, moduleId |-> c.moduleId,
                                lastID |-> certSeq + 1]]
                /\ UNCHANGED ret
           ELSE /\ ret' = GenerateFailure(c.userId, c.moduleId, "Failed to generate certificate")
                /\ calls' = [calls EXCEPT ![p] = Idle]
                /\ UNCHANGED <<certificates, certSeq>>
    /\ UNCHANGED <<tracker, users, modules, user_progress, lesson_progress, now, supplied>>

\* Lines 591-600: the new row is read back by its id and returned
GenReturn(p) ==
    /\ calls[p].pc = "getNew"
    /\ ret' = GenerateResult(calls[p].userId, calls[p].moduleId,
                             SelectCertificateById(certificates, calls[p].lastID))
    /\ calls' = [calls EXCEPT ![p] = Idle]
    /\ UNCHANGED <<tracker, db, now, supplied>>

InitConc == InitWith({Content(1, 0)})

UpdateLessonConc == UpdateLessonIn({<<L1, NULL>>}, BOOLEAN, {0})

StartGenerate == \E p \in Slots, u \in UserIds, m \in ModuleIds : GenQueryLessons(p, u, m)

StepGenerate ==
    \E p \in Slots : GenGetModule(p) \/ GenGetUser(p) \/ GenInsert(p) \/ GenReturn(p)

NextConc ==
    \/ UpdateLessonConc
    \/ ResetModule
    \/ StartGenerate
    \/ StepGenerate
    \/ VerifyCertificate
    \/ Tick

SpecConc == InitConc /\ [][NextConc]_vars

\* C8: there is at most one certificate row per (user, module), and a generateCertificate
\* that answers success returns the one row of its pair
C8_OneCertificatePerPair ==
    /\ \A c1 \in certificates : \A c2 \in certificates : SamePair(c1, c2) => c1 = c2
    /\ (ret.op = "generateCertificate" /\ ret.success) =>
          /\ Cardinality(ret.data) = 1
          /\ ret.data = {c \in certificates :
                            c.user_id = ret.userId /\ c.module_id = ret.moduleId}

\* C8 witness: a second issuance, begun before the first has returned and carrying
\* another code, is rejected by the store while the pair's certificate exists
C8_Witness ==
    /\ ret.op = "generateCertificate"
    /\ ret.error = "Failed to generate certificate"
    /\ Cardinality(certificates) = 1
    /\ \E p \in Slots : calls[p].pc = "getNew"
    /\ \A c \in certificates : c.issued_at # c.certificate_data.completionDate

\* C10: a certificate row, once in the table, stays in it unchanged at every later step,
\* stays the only row of its code, and a verifyCertificate of its code returns it
C10_CertificateImmutable ==
    [][/\ \A c \in certificates :
             /\ c \in certificates'
             /\ SelectCertificateByCode(certificates', c.certificate_code) = {c}
       /\ Called("verifyCertificate") =>
             \A c \in certificates : c.certificate_code = ret'.code => ret'.data = {c}]_vars

\* C10 witness: after a reset of the pair, verifyCertificate returns the pair's certificate
C10_Witness ==
    /\ ret.op = "verifyCertificate"
    /\ ret.data # {}
    /\ ret.data \subseteq certificates
    /\ user_progress = {}
    /\ lesson_progress = {}
    /\ \A c \in ret.data : c.issued_at < now

----------------------------------------------------------------------------
(* SpecScenario: a module of three lessons and one quiz, each item saved as  *)
(* completed once, with the time spent on it                                 *)

ScenarioCalls ==
    <<[lessonId |-> L1, quizScore |-> NULL, timeSpent |-> 60],
      [lessonId |-> L2, quizScore |-> NULL, timeSpent |-> 90],
      [lessonId |-> Q1, quizScore |-> 80, timeSpent |-> 30],
      [lessonId |-> L3, quizScore |-> NULL, timeSpent |-> 45]>>

InitScenario == InitWith({Content(3, 1)})

UpdateLessonScenario ==
    \E u \in UserIds, m \in ModuleIds, i \in 1..Len(ScenarioCalls) :
        updateLessonProgress(u, m, ScenarioCalls[i].lessonId, TRUE,
                             ScenarioCalls[i].timeSpent, ScenarioCalls[i].quizScore)

NextScenario ==
    \/ UpdateLessonScenario
    \/ ResetModule
    \/ GenerateCertificate
    \/ Tick

SpecScenario == InitScenario /\ [][NextScenario]_vars

\* The lesson ids that have a row are those of the first k calls of the sequence
AfterCalls(k) ==
    {r.lesson_id : r \in lesson_progress} = {ScenarioCalls[i].lessonId : i \in 1..k}

\* C11: from no rows, the calls lesson-1 (60s), lesson-2 (90s), quiz-1 with score 80 (30s),
\* lesson-3 (45s), each completed, leave progress_percentage at 25, 50, 75, 100, completed
\* false until the fourth call and true after it, completion_date null until the fourth
\* call and then the time of that call; a generateCertificate that follows succeeds
C11_ScenarioOutcome ==
    [][/\ \A k \in 1..Len(ScenarioCalls) :
             (/\ AfterCalls(k - 1)
              /\ Called("updateLessonProgress")
              /\ ret'.lessonId = ScenarioCalls[k].lessonId) =>
                /\ ret'.success
                /\ user_progress' # {}
                /\ \A r \in user_progress' :
                      /\ r.progress_percentage = 25 * k
                      /\ r.completed = (k = Len(ScenarioCalls))
                      /\ r.completion_date = IF k = Len(ScenarioCalls) THEN now ELSE NULL
       /\ (/\ AfterCalls(Len(ScenarioCalls))
           /\ certificates = {}
           /\ Called("generateCertificate")) =>
             /\ ret'.success
             /\ certificates' = ret'.data
             /\ Cardinality(certificates') = 1]_vars

\* C11 witness: the certificate issued after the four calls, the module completed at 100%
C11_Witness ==
    /\ ret.op = "generateCertificate"
    /\ ret.success
    /\ AfterCalls(Len(ScenarioCalls))
    /\ \E r \in user_progress :
          r.progress_percentage = 100 /\ r.completed /\ r.completion_date = MaxNow
    /\ \E c \in certificates : c.certificate_data.timeSpent = 225

----------------------------------------------------------------------------
(* SpecSteps: updateLessonProgress and resetModuleProgress calls that        *)
(* overlap.  Each call runs one store statement at a time (its awaits); the  *)
(* statements of the calls in progress run in any order.                     *)

\* The schema's UNIQUE (user_id, module_id) of user_progress
UserProgressUnique(up, row) ==
    \A r \in up : ~(r.user_id = row.user_id /\ r.module_id = row.module_id)

\* a lesson_progress table without its UNIQUE (user_id, module_id, lesson_id)
LessonProgressUnique_None(lp, row) == TRUE

\* The schema's UNIQUE (user_id, module_id, lesson_id) of lesson_progress
LessonProgressUnique(lp, row) ==
    \A r \in lp : ~(r.user_id = row.user_id /\ r.module_id = row.module_id
                      /\ r.lesson_id = row.lesson_id)

\* The response of updateLessonProgress whose statement was rejected (line 451)
UpdateFailure(c) ==
    [op |-> "updateLessonProgress", userId |-> c.userId, moduleId |-> c.moduleId,
     lessonId |-> c.lessonId, success |-> FALSE, error |-> "Failed to update progress",
     data |-> {}]

\* The call c at its next statement pc, with the values `read` it has read added
At(c, pc, read) == read @@ [pc |-> pc] @@ c

\* The history of supplied deltas after ts was written for key k
Supply(sup, k, ts) ==
    [x \in DOMAIN sup \cup {k} |->
        IF x = k THEN (IF x \in DOMAIN sup THEN sup[x] ELSE 0) + ts ELSE sup[x]]

\* Line 375: the module-level row of the pair is read
UlpGetModuleProgress(p, u, m, l, c, ts, q) ==
    /\ calls[p] = Idle
    /\ WithinTimeBound(u, m, l, ts)
    /\ calls' = [calls EXCEPT ![p] =
                    [pc |-> "touch", userId |-> u, moduleId |-> m, lessonId |-> l,
                     completed |-> c, timeSpent |-> ts, quizScore |-> q,
                     moduleProgress |-> SelectUserProgress(user_progress, u, m)]]
    /\ UNCHANGED <<tracker, db, now, ret, supplied>>

\* Lines 380-397: the INSERT of the module-level row, or the UPDATE of last_accessed
UlpTouch(p) ==
    /\ calls[p].pc = "touch"
    /\ LET c == calls[p]
           row == UserProgressRow(c.userId, c.moduleId, now)
           current == SelectUserProgress(user_progress, c.userId, c.moduleId)
       IN  IF c.moduleProgress = {} /\ ~UserProgressUnique(user_progress, row)
           THEN /\ ret' = UpdateFailure(c)
                /\ calls' = [calls EXCEPT ![p] = Idle]
                /\ UNCHANGED user_progress
           ELSE /\ user_progress' =
                      IF c.moduleProgress = {} THEN user_progress \cup {row}
                      ELSE (user_progress \ current) \cup
                             {[r EXCEPT !.last_accessed = now] : r \in current}
                /\ calls' = [calls EXCEPT ![p] = At(c, "getExisting", << >>)]
                /\ UNCHANGED ret
    /\ UNCHANGED <<tracker, users, modules, lesson_progress, certificates, certSeq, now, supplied>>

\* Line 400: the lesson row is read
UlpGetExisting(p) ==
    /\ calls[p].pc = "getExisting"
    /\ LET c == calls[p]
       IN  calls' = [calls EXCEPT ![p] =
                        At(c, "writeLesson",
                           [existing |-> SelectLesson(lesson_progress, c.userId,
                                                      c.moduleId, c.lessonId)])]
    /\ UNCHANGED <<tracker, db, now, ret, supplied>>

\* Lines 405-434: the UPDATE of the lesson row from the row read, or its INSERT
UlpWriteLesson(p) ==
    /\ calls[p].pc = "writeLesson"
    /\ LET c == calls[p]
           k == Key(c.userId, c.moduleId, c.lessonId)
           rows == SelectLesson(lesson_progress, c.userId, c.moduleId, c.lessonId)
           row == LessonProgressRow(c.userId, c.moduleId, c.lessonId, c.completed,
                                    c.timeSpent, c.quizScore, now)
       IN  IF c.existing = {} /\ ~LessonProgressUnique(lesson_progress, row)
           THEN /\ ret' = UpdateFailure(c)
                /\ calls' = [calls EXCEPT ![p] = Idle]
                /\ UNCHANGED <<lesson_progress, supplied>>
           ELSE /\ lesson_progress' =
                      IF c.existing = {} THEN lesson_progress \cup {row}
                      ELSE LET e == First(c.existing)
                           IN  (lesson_progress \ rows) \cup
                                 {[r EXCEPT !.completed = c.completed,
                                            !.time_spent = NewTimeSpent(e, c.timeSpent),
                                            !.quiz_score = IF c.quizScore # NULL THEN c.quizScore
                                                           ELSE e.quiz_score,
                                            !.completed_at = IF c.completed THEN now
                                                             ELSE e.completed_at]
                                    : r \in rows}
                /\ supplied' = IF c.existing = {} \/ rows # {}
                               THEN Supply(supplied, k, c.timeSpent) ELSE supplied
                /\ calls' = [calls EXCEPT ![p] = At(c, "umcRead", << >>)]
                /\ UNCHANGED ret
    /\ UNCHANGED <<tracker, users, modules, user_progress, certificates, certSeq, now>>

\* Lines 495-521: the module and the two counts are read
UmcRead(p) ==
    /\ calls[p].pc = "umcRead"
    /\ LET c == calls[p]
           module == SelectModule(modules, c.moduleId)
       IN  calls' = [calls EXCEPT ![p] =
              IF module = {} \/ First(module).content.lessons + First(module).content.quizzes = 0
              THEN At(c, "return", << >>)
              ELSE At(c, "umcCurrent",
                      [totalLessons |-> First(module).content.lessons,
                       totalQuizzes |-> First(module).content.quizzes,
                       completedLessons |-> CompletedLessons(lesson_progress, c.userId, c.moduleId),
                       completedQuizzes |-> CompletedQuizzes(lesson_progress, c.userId, c.moduleId)])]
    /\ UNCHANGED <<tracker, db, now, ret, supplied>>

\* Line 527: the module-level row is read again
UmcGetCurrent(p) ==
    /\ calls[p].pc = "umcCurrent"
    /\ LET c == calls[p]
           currentProgress == SelectUserProgress(user_progress, c.userId, c.moduleId)
       IN  calls' = [calls EXCEPT ![p] =
              IF currentProgress = {} THEN At(c, "return", << >>)
              ELSE At(c, "umcUpdate", [currentProgress |-> currentProgress])]
    /\ UNCHANGED <<tracker, db, now, ret, supplied>>

\* Lines 534-543: the UPDATE of the aggregate, from the values read
UmcUpdate(p) ==
    /\ calls[p].pc = "umcUpdate"
    /\ LET c == calls[p]
           current == SelectUserProgress(user_progress, c.userId, c.moduleId)
           isCompleted == IsCompleted(c.completedLessons, c.completedQuizzes,
                                      c.totalLessons, c.totalQuizzes)
       IN  /\ user_progress' = (user_progress \ current) \cup
                 {[r EXCEPT !.progress_percentage =
                               RoundPct(c.completedLessons + c.completedQuizzes,
                                        c.totalLessons + c.totalQuizzes),
                            !.completed = isCompleted,
                            !.completion_date =
                               CompletionDate(isCompleted, First(c.currentProgress), now)]
                    : r \in current}
           /\ calls' = [calls EXCEPT ![p] = At(c, "return", << >>)]
    /\ UNCHANGED <<tracker, users, modules, lesson_progress, certificates, certSeq, now, ret, supplied>>

\* Lines 440-449: the lesson row is read back and returned
UlpReturn(p) ==
    /\ calls[p].pc = "return"
    /\ LET c == calls[p]
           updatedProgress == SelectLesson(lesson_progress, c.userId, c.moduleId, c.lessonId)
       IN  ret' = [op |-> "updateLessonProgress", userId |-> c.userId,
                   moduleId |-> c.moduleId, lessonId |-> c.lessonId,
                   success |-> updatedProgress # {},
                   error |-> IF updatedProgress # {} THEN ""
                             ELSE "Failed to retrieve updated progress",
                   data |-> updatedProgress]
    /\ calls' = [calls EXCEPT ![p] = Idle]
    /\ UNCHANGED <<tracker, db, now, supplied>>

\* Line 477: the DELETE of the module-level row
ResetDeleteUserProgress(p, u, m) ==
    /\ calls[p] = Idle
    /\ user_progress' = user_progress \ SelectUserProgress(user_progress, u, m)
    /\ calls' = [calls EXCEPT ![p] = [pc |-> "resetLessons", userId |-> u, moduleId |-> m]]
    /\ UNCHANGED <<tracker, users, modules, lesson_progress, certificates, certSeq, now, ret, supplied>>

\* Lines 481-486: the DELETE of the lesson rows, and the answer
ResetDeleteLessons(p) ==
    /\ calls[p].pc = "resetLessons"
    /\ LET c == calls[p]
           rows == SelectLessons(lesson_progress, c.userId, c.moduleId)
       IN  /\ lesson_progress' = lesson_progress \ rows
           /\ ret' = [op |-> "resetModuleProgress", userId |-> c.userId,
                      moduleId |-> c.moduleId, success |-> TRUE, error |-> "",
                      changes |-> Cardinality(rows)]
           /\ supplied' = [k \in {x \in DOMAIN supplied :
                                     ~(x[1] = c.userId /\ x[2] = c.moduleId)} |-> supplied[k]]
    /\ calls' = [calls EXCEPT ![p] = Idle]
    /\ UNCHANGED <<tracker, users, modules, user_progress, certificates, certSeq, now>>

InitSteps == InitWith({Content(1, 0)})

StartUpdate ==
    \E p \in Slots, u \in UserIds, m \in ModuleIds, c \in BOOLEAN :
        UlpGetModuleProgress(p, u, m, L1, c, 0, NULL)

StepUpdate ==
    \E p \in Slots :
        \/ UlpTouch(p) \/ UlpGetExisting(p) \/ UlpWriteLesson(p)
        \/ UmcRead(p) \/ UmcGetCurrent(p) \/ UmcUpdate(p) \/ UlpReturn(p)

StartReset == \E p \in Slots, u \in UserIds, m \in ModuleIds : ResetDeleteUserProgress(p, u, m)

StepReset == \E p \in Slots : ResetDeleteLessons(p)

NextSteps ==
    \/ StartUpdate
    \/ StepUpdate
    \/ StartReset
    \/ StepReset

SpecSteps == InitSteps /\ [][NextSteps]_vars

\* C12: there is at most one user_progress row per (user, module) and at most one
\* lesson_progress row per (user, module, lesson id), whatever the interleaving of the
\* updateLessonProgress and resetModuleProgress calls
C12_OneRowPerKey ==
    /\ \A r \in user_progress : \A s \in user_progress : SamePair(r, s) => r = s
    /\ \A r \in lesson_progress : \A s \in lesson_progress :
          (SamePair(r, s) /\ r.lesson_id = s.lesson_id) => r = s

\* C12 witness: of two overlapping first saves of a lesson, the second INSERT was
\* rejected by the store and the row of the first is the only one
C12_Witness ==
    /\ ret.op = "updateLessonProgress"
    /\ ret.error = "Failed to update progress"
    /\ Cardinality(user_progress) = 1
    /\ Cardinality(lesson_progress) = 1
    /\ \A r \in lesson_progress : r.lesson_id = ret.lessonId

\* C33: updateLessonProgress calls of one (user, module) that interleave at their store
\* statements all answer success: none fails because of the other, also when both are
\* the first interaction with the module
C33_InterleavedUpdatesSucceed ==
    ret.op = "updateLessonProgress" => ret.success

\* C34: whenever no operation is in progress, every lesson_progress row of a
\* (user, module) has a user_progress row of the same pair, under every interleaving
\* of updateLessonProgress and resetModuleProgress
C34_LessonRowHasModuleRow ==
    (\A p \in Slots : calls[p] = Idle) =>
        \A r \in lesson_progress :
            \E mp \in user_progress : mp.user_id = r.user_id /\ mp.module_id = r.module_id

----------------------------------------------------------------------------
(* SpecFaults: the handlers of the call bridge when a statement of the store *)
(* is rejected (query, run and get reject on any error of the driver, lines  *)
(* 50-96).  fault names the statement of the call that is rejected; the      *)
(* statements before it have run, none after it does.  The response carries  *)
(* the fault it answers.                                                     *)

\* The response answers a call one of whose statements was rejected
Faulted(r) == "fault" \in DOMAIN r

\* progress:update-lesson.  A rejection in updateModuleCompletionStatus is caught and
\* logged there (lines 545-547) and the call goes on; any other is answered by line 451
updateLessonProgressFault(u, m, l, c, ts, q, fault) ==
    /\ WithinTimeBound(u, m, l, ts)
    /\ fault \in {"touch", "writeLesson", "aggregate", "readBack"}
    /\ LET up1 == IF fault = "touch" THEN user_progress
                  ELSE TouchUserProgress(user_progress, u, m, now)
           lp1 == IF fault \in {"touch", "writeLesson"} THEN lesson_progress
                  ELSE UpsertLesson(lesson_progress, u, m, l, c, ts, q, now)
           up2 == IF fault = "readBack"
                  THEN updateModuleCompletionStatus(up1, lp1, modules, u, m, now)
                  ELSE up1
           updatedProgress == SelectLesson(lp1, u, m, l)
       IN  /\ user_progress' = up2
           /\ lesson_progress' = lp1
           /\ ret' = IF fault = "aggregate"
                     THEN [op |-> "updateLessonProgress", userId |-> u, moduleId |-> m,
                           lessonId |-> l, success |-> updatedProgress # {},
                           error |-> IF updatedProgress # {} THEN ""
                                     ELSE "Failed to retrieve updated progress",
                           data |-> updatedProgress, fault |-> fault]
                     ELSE [op |-> "updateLessonProgress", userId |-> u, moduleId |-> m,
                           lessonId |-> l, success |-> FALSE,
                           error |-> "Failed to update progress", data |-> {},
                           fault |-> fault]
           /\ supplied' = IF fault \in {"touch", "writeLesson"}
                          THEN supplied ELSE Supply(supplied, Key(u, m, l), ts)
    /\ UNCHANGED <<tracker, users, modules, certificates, certSeq, now, calls>>

\* progress:get-module-progress: getModuleProgress catches the rejection and returns
\* { moduleProgress: null, lessonProgress: [] } (lines 469-472), which the handler wraps
\* as { success: true, data } (part_004 lines 201-202)
getModuleProgressFault(u, m) ==
    /\ ret' = [op |-> "getModuleProgress", userId |-> u, moduleId |-> m,
               success |-> TRUE, error |-> "",
               moduleProgress |-> {}, lessonProgress |-> {}, fault |-> "read"]
    /\ UNCHANGED <<tracker, db, now, supplied, calls>>

\* progress:reset-module: the rejection is answered by line 488
resetModuleProgressFault(u, m, fault) ==
    /\ fault \in {"deleteUserProgress", "deleteLessons"}
    /\ user_progress' = IF fault = "deleteUserProgress" THEN user_progress
                        ELSE user_progress \ SelectUserProgress(user_progress, u, m)
    /\ ret' = [op |-> "resetModuleProgress", userId |-> u, moduleId |-> m,
               success |-> FALSE, error |-> "Failed to reset progress",
               changes |-> 0, fault |-> fault]
    /\ UNCHANGED <<tracker, users, modules, lesson_progress, certificates, certSeq, now,
                   supplied, calls>>

\* certificates:generate: the rejection is answered by line 602; a rejected read of the
\* new row leaves the row inserted
generateCertificateFault(u, m, fault) ==
    /\ fault \in {"read", "insert", "getNew"}
    /\ LET lessonProgress == SelectCompleted(lesson_progress, u, m)
           module == SelectModule(modules, m)
           user == SelectUser(users, u)
           row == CertificateRow(certSeq + 1, u, m, CertificateCode(now, u, m),
                                 CertificateData(lessonProgress, module, user, now), now)
       IN  IF fault = "read"
           THEN /\ ret' = GenerateFailure(u, m, "Failed to generate certificate")
                             @@ [fault |-> fault]
                /\ UNCHANGED <<certificates, certSeq>>
           ELSE /\ GenerateCheck(lessonProgress, module, user) = ""
                /\ ret' = GenerateFailure(u, m, "Failed to generate certificate")
                             @@ [fault |-> fault]
                /\ IF fault = "getNew" /\ CertificateUnique(certificates, row)
                   THEN certificates' = certificates \cup {row} /\ certSeq' = certSeq + 1
                   ELSE UNCHANGED <<certificates, certSeq>>
    /\ UNCHANGED <<tracker, users, modules, user_progress, lesson_progress, now, supplied, calls>>

\* certificates:verify: verifyCertificate catches the rejection and returns null (lines
\* 626-629), which the handler answers with 'Certificate not found' (part_004 line 249)
verifyCertificateFault(code) ==
    /\ ret' = [op |-> "verifyCertificate", code |-> code, success |-> FALSE,
               error |-> "Certificate not found", data |-> {}, fault |-> "read"]
    /\ UNCHANGED <<tracker, db, now, supplied, calls>>

InitFaults == InitWith({Content(1, 0)})

UpdateLessonFaults == UpdateLessonIn({<<L1, NULL>>}, BOOLEAN, {0})

FaultyCall ==
    \E u \in UserIds, m \in ModuleIds :
        \/ \E c \in BOOLEAN, fault \in {"touch", "writeLesson", "aggregate", "readBack"} :
              updateLessonProgressFault(u, m, L1, c, 0, NULL, fault)
        \/ getModuleProgressFault(u, m)
        \/ \E fault \in {"deleteUserProgress", "deleteLessons"} :
              resetModuleProgressFault(u, m, fault)
        \/ \E fault \in {"read", "insert", "getNew"} : generateCertificateFault(u, m, fault)
        \/ \E code \in Codes : verifyCertificateFault(code)

NextFaults ==
    \/ UpdateLessonFaults
    \/ ResetModule
    \/ GetProgress
    \/ GenerateCertificate
    \/ VerifyCertificate
    \/ FaultyCall
    \/ Tick

SpecFaults == InitFaults /\ [][NextFaults]_vars

\* C14: every response to a call one of whose store statements was rejected has
\* success = false and an error message
C14_FailuresReported ==
    Faulted(ret) => (~ret.success /\ ret.error # "")

----------------------------------------------------------------------------
(* SpecStore: the store over the life of the application: modules deleted,  *)
(* the application started again, calls for users and modules that are not  *)
(* in the store.  The connection is opened without PRAGMA foreign_keys, so  *)
(* the FOREIGN KEY clauses of the schema are not enforced: a DELETE does not *)
(* cascade and an INSERT may refer to a missing user or module.              *)

\* DELETE FROM modules WHERE id = ?
deleteModule(id) ==
    /\ modules' = modules \ SelectModule(modules, id)
    /\ ret' = [op |-> "deleteModule", moduleId |-> id,
               success |-> SelectModule(modules, id) # {},
               error |-> IF SelectModule(modules, id) # {} THEN "" ELSE "Module not found"]
    /\ UNCHANGED <<tracker, users, user_progress, lesson_progress, certificates, certSeq, now,
                   supplied, calls>>

\* initialize() at the start of the application: the five tables are dropped and created
\* again from the schema, which inserts the admin user, and the sample module is loaded
initialize(contents) ==
    /\ users' = {AdminUser}
    /\ \E content \in contents :
          modules' = {[id |-> 1, title |-> "Algorithms", content |-> content]}
    /\ user_progress' = {}
    /\ lesson_progress' = {}
    /\ certificates' = {}
    /\ certSeq' = 0
    /\ ret' = [op |-> "initialize"]
    /\ supplied' = << >>
    /\ calls' = [p \in Slots |-> Idle]
    /\ UNCHANGED <<tracker, now>>

\* The users and modules the calls of SpecStore name: user 2 and module 2 are not stored
StoreUserIds == {1, 2}
StoreModuleIds == {1, 2}

InitStore == InitWith({Content(1, 0)})

UpdateLessonStore ==
    \E u \in StoreUserIds, m \in ModuleIds :
        updateLessonProgress(u, m, L1, TRUE, 0, NULL)

GenerateCertificateStore ==
    \E u \in StoreUserIds, m \in StoreModuleIds : generateCertificate(u, m)

DeleteModule == \E m \in ModuleIds : deleteModule(m)

Initialize == initialize({Content(1, 0)})

NextStore ==
    \/ UpdateLessonStore
    \/ ResetModule
    \/ GenerateCertificateStore
    \/ DeleteModule
    \/ Initialize
    \/ Tick

SpecStore == InitStore /\ [][NextStore]_vars

\* C15: after a deleteModule(id) that succeeds, no user_progress row, no lesson_progress
\* row and no certificate row refers to module id
C15_DeleteCascades ==
    [][(Called("deleteModule") /\ ret'.success) =>
          /\ \A r \in user_progress' : r.module_id # ret'.moduleId
          /\ \A r \in lesson_progress' : r.module_id # ret'.moduleId
          /\ \A c \in certificates' : c.module_id # ret'.moduleId]_vars

\* C16: a user_progress row of an existing user and module is still there after every
\* step that is not a resetModuleProgress of its pair
C16_ProgressRowPersists ==
    [][\A r \in user_progress :
          (/\ SelectUser(users, r.user_id) # {}
           /\ SelectModule(modules, r.module_id) # {}
           /\ ~(/\ Called("resetModuleProgress")
                /\ ret'.userId = r.user_id /\ ret'.moduleId = r.module_id)) =>
             \E s \in user_progress' : SamePair(r, s)]_vars

\* C17: generateCertificate(u, m) answers 'Module or user not found' and inserts no
\* certificate whenever user u or module m is not in the store, whatever lesson rows
\* the pair has
C17_NotFound ==
    [][(/\ Called("generateCertificate")
        /\ (SelectUser(users, ret'.userId) = {} \/ SelectModule(modules, ret'.moduleId) = {})) =>
          /\ ~ret'.success
          /\ ret'.error = "Module or user not found"
          /\ certificates' = certificates]_vars

\* C17 witness: the call is refused for a user that is not stored although the pair has
\* a completed lesson row, the module being there
C17_Witness ==
    /\ ret.op = "generateCertificate"
    /\ ret.error = "Module or user not found"
    /\ SelectUser(users, ret.userId) = {}
    /\ SelectModule(modules, ret.moduleId) # {}
    /\ SelectCompleted(lesson_progress, ret.userId, ret.moduleId) # {}

----------------------------------------------------------------------------
(* SpecUsers: registrations that overlap, and certificates of several users. *)
(* createUser runs one store statement at a time: the lookup, then (after   *)
(* the password is hashed) the INSERT, then the read of the new row.         *)

\* a users table without its UNIQUE username and UNIQUE email
UserUnique_None(us, row) == TRUE

\* The schema's username UNIQUE and email UNIQUE
UserUnique(us, row) ==
    \A r \in us : r.username # row.username /\ r.email # row.email

\* SELECT * FROM users WHERE email = ? OR username = ?
SelectUserByEmailOrUsername(us, email, username) ==
    {r \in us : r.email = email \/ r.username = username}

\* The AUTOINCREMENT id of the next users row: no row of the table is ever deleted
NextUserId(us) == Cardinality(us) + 1

\* The response of createUser that answers a failure
CreateUserFailure(username, email, msg) ==
    [op |-> "createUser", username |-> username, email |-> email,
     success |-> FALSE, error |-> msg, data |-> {}]

\* a response that returns the row as it was read, password_hash included
WithoutPassword_Keeps(row) == row

\* const { password_hash: _password_hash, ...userWithoutPassword } = row
WithoutPassword(row) == [f \in DOMAIN row \ {"password_hash"} |-> row[f]]

\* Lines 143-153: the lookup of a user with the email or the username
CuGetExisting(p, username, email, password) ==
    /\ calls[p] = Idle
    /\ IF SelectUserByEmailOrUsername(users, email, username) # {}
       THEN /\ ret' = CreateUserFailure(username, email,
                                        "User with this email or username already exists")
            /\ UNCHANGED calls
       ELSE /\ calls' = [calls EXCEPT ![p] =
                           [pc |-> "insertUser", username |-> username, email |-> email,
                            password |-> password]]
            /\ UNCHANGED ret
    /\ UNCHANGED <<tracker, db, now, supplied>>

\* Lines 156-162: the INSERT runs against the table as it is then
CuInsert(p) ==
    /\ calls[p].pc = "insertUser"
    /\ LET c == calls[p]
           row == [id |-> NextUserId(users), username |-> c.username, email |-> c.email,
                   password_hash |-> BcryptHash(c.password)]
       IN  IF UserUnique(users, row)
           THEN /\ users' = users \cup {row}
                /\ calls' = [calls EXCEPT ![p] = At(c, "getNewUser", [lastID |-> row.id])]
                /\ UNCHANGED ret
           ELSE /\ ret' = CreateUserFailure(c.username, c.email, "Failed to create user")
                /\ calls' = [calls EXCEPT ![p] = Idle]
                /\ UNCHANGED users
    /\ UNCHANGED <<tracker, modules, user_progress, lesson_progress, certificates, certSeq, now,
                   supplied>>

\* Lines 165-177: the new row is read back by its id and returned
CuReturn(p) ==
    /\ calls[p].pc = "getNewUser"
    /\ LET c == calls[p]
           newUser == SelectUser(users, c.lastID)
       IN  ret' = IF newUser # {}
                  THEN [op |-> "createUser", username |-> c.username, email |-> c.email,
                        success |-> TRUE, error |-> "",
                        data |-> {WithoutPassword(r) : r \in newUser}]
                  ELSE CreateUserFailure(c.username, c.email, "Failed to retrieve created user")
    /\ calls' = [calls EXCEPT ![p] = Idle]
    /\ UNCHANGED <<tracker, db, now, supplied>>

Usernames == {"admin", "amy", "ben"}
Emails == {"admin@ourafrica.com", "amy@ourafrica.com"}

InitUsers == InitWith({Content(1, 0)})

StartCreateUser ==
    \E p \in Slots, username \in Usernames, email \in Emails :
        CuGetExisting(p, username, email, "secret")

StepCreateUser == \E p \in Slots : CuInsert(p) \/ CuReturn(p)

UpdateLessonUsers ==
    \E u \in StoreUserIds, m \in ModuleIds : updateLessonProgress(u, m, L1, TRUE, 0, NULL)

GenerateCertificateUsers ==
    \E u \in StoreUserIds, m \in ModuleIds : generateCertificate(u, m)

NextUsers ==
    \/ StartCreateUser
    \/ StepCreateUser
    \/ UpdateLessonUsers
    \/ GenerateCertificateUsers
    \/ Tick

SpecUsers == InitUsers /\ [][NextUsers]_vars

\* C19: any two distinct certificate rows have distinct codes, and a certificate for
\* another pair is issued at the timestamp of an existing certificate, its code not
\* being refused
C19_CodesDistinct ==
    [][/\ \A c1 \in certificates' : \A c2 \in certificates' :
             c1 # c2 => c1.certificate_code # c2.certificate_code
       /\ (/\ Called("generateCertificate")
           /\ SelectUser(users, ret'.userId) # {}
           /\ SelectModule(modules, ret'.moduleId) # {}
           /\ SelectCompleted(lesson_progress, ret'.userId, ret'.moduleId) # {}
           /\ \A c \in certificates :
                 ~(c.user_id = ret'.userId /\ c.module_id = ret'.moduleId)) =>
             /\ ret'.success
             /\ \A c \in ret'.data : \A d \in certificates :
                   c.certificate_code # d.certificate_code]_vars

\* C19 witness: two certificates of different pairs issued at the same timestamp
C19_Witness ==
    \E c1 \in certificates : \E c2 \in certificates :
        /\ c1.user_id # c2.user_id
        /\ c1.issued_at = c2.issued_at
        /\ c1.certificate_code # c2.certificate_code

\* Two user rows have the same username or the same email
SharesIdentity(a, b) == a.username = b.username \/ a.email = b.email

\* C20: no two users share a username or an email, also with registrations that overlap,
\* and a createUser that answers while another user has its username or its email
\* answers a failure and leaves the users table unchanged
C20_UsersUnique ==
    [][/\ \A a \in users' : \A b \in users' : SharesIdentity(a, b) => a = b
       /\ (/\ Called("createUser")
           /\ \E r \in users :
                 /\ \A d \in ret'.data : d.id # r.id
                 /\ (r.username = ret'.username \/ r.email = ret'.email)) =>
             /\ ~ret'.success
             /\ users' = users]_vars

\* C20 witness: of two overlapping registrations that both passed the lookup, the
\* second INSERT was rejected
C20_Witness ==
    /\ ret.op = "createUser"
    /\ ret.error = "Failed to create user"
    /\ Cardinality(users) = 2
    /\ \E r \in users : r.id = 2 /\ (r.username = ret.username \/ r.email = ret.email)

----------------------------------------------------------------------------
(* SpecAuth: what the calls that return users hand out: registrations,      *)
(* logins with known and unknown emails and right and wrong passwords, the   *)
(* list of users and the user of an id.                                      *)

\* SELECT * FROM users WHERE email = ?
SelectUserByEmail(us, email) == {r \in us : r.email = email}

\* SELECT id, username, email, avatar, created_at FROM users: the columns of the model's
\* rows that the statement names
SelectPublicColumns(row) == [id |-> row.id, username |-> row.username, email |-> row.email]

\* authenticateUser that tells an unknown email from a wrong password
AuthenticateResult_TellsUnknown(us, email, password) ==
    LET user == SelectUserByEmail(us, email)
    IN  IF user = {}
        THEN [success |-> FALSE, error |-> "User not found", data |-> {}]
        ELSE IF ~BcryptCompare(password, First(user).password_hash)
             THEN [success |-> FALSE, error |-> "Invalid email or password", data |-> {}]
             ELSE [success |-> TRUE, error |-> "", data |-> {WithoutPassword(First(user))}]

\* Lines 184-203: what authenticateUser answers against the table us
AuthenticateResult(us, email, password) ==
    LET user == SelectUserByEmail(us, email)
    IN  IF user = {}
        THEN [success |-> FALSE, error |-> "Invalid email or password", data |-> {}]
        ELSE IF ~BcryptCompare(password, First(user).password_hash)
             THEN [success |-> FALSE, error |-> "Invalid email or password", data |-> {}]
             ELSE [success |-> TRUE, error |-> "", data |-> {WithoutPassword(First(user))}]

authenticateUser(email, password) ==
    /\ ret' = [op |-> "authenticateUser", email |-> email, password |-> password]
                 @@ AuthenticateResult(users, email, password)
    /\ UNCHANGED <<tracker, db, now, supplied, calls>>

getAllUsers ==
    /\ ret' = [op |-> "getAllUsers", data |-> {SelectPublicColumns(r) : r \in users}]
    /\ UNCHANGED <<tracker, db, now, supplied, calls>>

getUserById(id) ==
    /\ ret' = [op |-> "getUserById", userId |-> id,
               data |-> {SelectPublicColumns(r) : r \in SelectUser(users, id)}]
    /\ UNCHANGED <<tracker, db, now, supplied, calls>>

Passwords == {"secret", "guess"}
AuthEmails == Emails \cup {"nobody@ourafrica.com"}

InitAuth == InitWith({Content(1, 0)})

StartCreateAuth ==
    \E p \in Slots, username \in {"amy", "ben"}, email \in Emails, password \in Passwords :
        CuGetExisting(p, username, email, password)

AuthenticateUser ==
    \E email \in AuthEmails, password \in Passwords : authenticateUser(email, password)

GetUserById == \E id \in StoreUserIds : getUserById(id)

NextAuth ==
    \/ StartCreateAuth
    \/ StepCreateUser
    \/ AuthenticateUser
    \/ getAllUsers
    \/ GetUserById

SpecAuth == InitAuth /\ [][NextAuth]_vars

\* C39: no user record returned by createUser, authenticateUser, getAllUsers or
\* getUserById has a password_hash field, and against every users table authenticateUser
\* answers an unknown email with the same error as a wrong password
C39_NoPasswordHashReturned ==
    /\ ret.op \in {"createUser", "authenticateUser", "getAllUsers", "getUserById"} =>
          \A r \in ret.data : "password_hash" \notin DOMAIN r
    /\ \A e1 \in AuthEmails, e2 \in AuthEmails, p1 \in Passwords, p2 \in Passwords :
          (/\ SelectUserByEmail(users, e1) = {}
           /\ \E r \in SelectUserByEmail(users, e2) : ~BcryptCompare(p2, r.password_hash)) =>
             AuthenticateResult(users, e1, p1) = AuthenticateResult(users, e2, p2)

\* C39 witness: a login with the registered user's email and password answered with
\* the user's record, the table holding the user's password_hash
C39_Witness ==
    /\ ret.op = "authenticateUser" /\ ret.success
    /\ \E r \in ret.data : \E s \in users :
          /\ s.id = r.id /\ r.username = s.username /\ r.email = s.email
          /\ s.password_hash = BcryptHash(ret.password)
    /\ \E e \in AuthEmails : SelectUserByEmail(users, e) = {}

----------------------------------------------------------------------------
(* SpecRow: the columns of one lesson row over repeated saves, with and without a
   quiz score *)

InitRow == InitWith({Content(1, 1)})

QuizScores == {NULL, 0, 80}

UpdateLessonRow ==
    UpdateLessonIn({<<L1, NULL>>} \cup {<<Q1, q>> : q \in QuizScores}, BOOLEAN, {0})

NextRow ==
    \/ UpdateLessonRow
    \/ ResetModule
    \/ Tick

SpecRow == InitRow /\ [][NextRow]_vars

\* The step is the call updateLessonProgress(u, m, l, c, ts, q)
UpdateCall(u, m, l, c, ts, q) ==
    /\ Called("updateLessonProgress")
    /\ ret'.userId = u /\ ret'.moduleId = m /\ ret'.lessonId = l
    /\ updateLessonProgress(u, m, l, c, ts, q)

\* C22: when updateLessonProgress updates an existing lesson row, the stored completed
\* flag becomes exactly the supplied flag: saving completed = false on a completed row
\* leaves the row not completed
C22_FlagReplaces ==
    [][\A u \in UserIds, m \in ModuleIds, l \in {L1, Q1}, c \in BOOLEAN, q \in QuizScores :
          UpdateCall(u, m, l, c, 0, q) =>
             \A r \in SelectLesson(lesson_progress, u, m, l) :
                \A s \in lesson_progress' : SameLesson(r, s) => s.completed = c]_vars

\* C22 witness: a row that was completed (it carries a completed_at) has been saved again
\* with completed = false and is not completed
C22_Witness ==
    /\ ret.op = "updateLessonProgress" /\ ret.success
    /\ \E s \in ret.data : s \in lesson_progress /\ ~s.completed /\ s.completed_at # NULL

\* C23: when updateLessonProgress updates an existing lesson row without a quizScore, the
\* stored quiz_score is unchanged; with a quizScore (0 included) it becomes that value
C23_QuizScoreKeptOrReplaced ==
    [][\A u \in UserIds, m \in ModuleIds, l \in {L1, Q1}, c \in BOOLEAN, q \in QuizScores :
          UpdateCall(u, m, l, c, 0, q) =>
             \A r \in SelectLesson(lesson_progress, u, m, l) :
                \A s \in lesson_progress' :
                   SameLesson(r, s) =>
                      s.quiz_score = IF q = NULL THEN r.quiz_score ELSE q]_vars

\* C23 witness: a quiz row saved more than once (not completed, yet carrying the
\* completed_at of an earlier save) holds the score 0
C23_Witness ==
    /\ ret.op = "updateLessonProgress" /\ ret.success /\ ret.lessonId = Q1
    /\ \E s \in ret.data :
          s \in lesson_progress /\ s.quiz_score = 0 /\ ~s.completed /\ s.completed_at # NULL

\* C24: the first updateLessonProgress for a pair without a module-level row creates the
\* row with started_at set to the current time; every later call for the pair leaves
\* started_at unchanged, and its first step changes nothing but last_accessed
C24_StartedAtSetOnce ==
    [][Called("updateLessonProgress") =>
          LET u == ret'.userId
              m == ret'.moduleId
              before == SelectUserProgress(user_progress, u, m)
              touched == SelectUserProgress(TouchUserProgress(user_progress, u, m, now), u, m)
              after == SelectUserProgress(user_progress', u, m)
          IN  /\ Cardinality(after) = 1
              /\ before = {} => \A s \in after : s.started_at = now
              /\ \A r \in before :
                    /\ \A s \in after : s.started_at = r.started_at
                    /\ touched = {[r EXCEPT !.last_accessed = now]}]_vars

\* C24 witness: after a later call the row still has the started_at of the first call
\* while last_accessed has moved on
C24_Witness ==
    /\ ret.op = "updateLessonProgress" /\ ret.success
    /\ \E r \in SelectUserProgress(user_progress, ret.userId, ret.moduleId) :
          r.started_at = 0 /\ r.last_accessed = MaxNow

\* The aggregate columns of a module-level row
Aggregate(r) == <<r.progress_percentage, r.completed, r.completion_date>>

\* C25: repeating an updateLessonProgress call with the same lesson id, the same completed
\* flag and quiz score and a timeSpent of 0 leaves progress_percentage, completed and
\* completion_date of the module-level row as they were after the first call
C25_RecomputationIdempotent ==
    [][ret.op = "updateLessonProgress" /\ ret.success =>
          \A first \in ret.data : \A q \in {NULL, first.quiz_score} :
             UpdateCall(ret.userId, ret.moduleId, ret.lessonId, first.completed, 0, q) =>
                {Aggregate(r) : r \in SelectUserProgress(user_progress', ret.userId, ret.moduleId)}
                  = {Aggregate(r) : r \in SelectUserProgress(user_progress, ret.userId, ret.moduleId)}]_vars

\* C25 witness: a completed item was saved again at a later time (its completed_at moved)
\* while the module keeps the completion_date of the first completion
C25_Witness ==
    /\ ret.op = "updateLessonProgress" /\ ret.success
    /\ \E s \in ret.data : s.completed /\ s.completed_at = MaxNow
    /\ \E r \in SelectUserProgress(user_progress, ret.userId, ret.moduleId) :
          r.completed /\ r.completion_date = 0 /\ r.progress_percentage = 100

----------------------------------------------------------------------------
(* SpecEmpty: a module whose content document lists no lessons and no quizzes *)

InitEmpty == InitWith({Content(0, 0)})

UpdateLessonEmpty == UpdateLessonIn({<<L1, NULL>>, <<Q1, NULL>>, <<Q1, 80>>}, BOOLEAN, {0})

NextEmpty ==
    \/ UpdateLessonEmpty
    \/ ResetModule
    \/ Tick

SpecEmpty == InitEmpty /\ [][NextEmpty]_vars

\* C26: for a module without lessons and quizzes, progress_percentage, completed and
\* completion_date of the module-level row stay 0, false and null whatever is saved
C26_EmptyModuleUntouched ==
    \A r \in user_progress :
        \A mod \in SelectModule(modules, r.module_id) :
            mod.content.lessons + mod.content.quizzes = 0 =>
                Aggregate(r) = <<0, FALSE, NULL>>

\* C26 witness: completed lesson and quiz rows were saved for the empty module
C26_Witness ==
    /\ ret.op = "updateLessonProgress" /\ ret.success
    /\ \E r \in user_progress : \E mod \in SelectModule(modules, r.module_id) :
          /\ mod.content.lessons + mod.content.quizzes = 0
          /\ \E s \in SelectLessons(lesson_progress, r.user_id, r.module_id) :
                s.lesson_id = L1 /\ s.completed
          /\ \E s \in SelectLessons(lesson_progress, r.user_id, r.module_id) :
                s.lesson_id = Q1 /\ s.completed /\ s.quiz_score = 80

----------------------------------------------------------------------------
(* SpecBlank: certificates of a module whose lesson list is empty *)

InitBlank == InitWith({Content(0, 0), Content(1, 0)})

UpdateLessonBlank == UpdateLessonIn({<<L1, NULL>>}, BOOLEAN, {0})

NextBlank ==
    \/ UpdateLessonBlank
    \/ ResetModule
    \/ GenerateCertificate
    \/ Tick

SpecBlank == InitBlank /\ [][NextBlank]_vars

\* C37: generateCertificate(u, m) never succeeds when the pair has no completed
\* lesson_progress row, whatever the module's content, an empty lesson list included
C37_NoCertificateWithoutCompletedRow ==
    [][(Called("generateCertificate") /\
        SelectCompleted(lesson_progress, ret'.userId, ret'.moduleId) = {}) =>
          ~ret'.success]_vars

----------------------------------------------------------------------------
(* SpecFrame: calls for several users and modules and for two lessons of a   *)
(* module.  User 2 and module 2 are not stored; the rows of their pairs are   *)
(* written all the same, the FOREIGN KEY clauses not being enforced.          *)

FrameUserIds == {1, 2}
FrameModuleIds == {1, 2}

InitFrame == InitWith({Content(2, 0)})

UpdateLessonFrame ==
    \E u \in FrameUserIds, m \in FrameModuleIds, l \in {L1, L2} :
        updateLessonProgress(u, m, l, TRUE, 0, NULL)

ResetModuleFrame ==
    \E u \in FrameUserIds, m \in FrameModuleIds : resetModuleProgress(u, m)

NextFrame ==
    \/ UpdateLessonFrame
    \/ ResetModuleFrame

SpecFrame == InitFrame /\ [][NextFrame]_vars

\* the rows of a table that are not of the pair (u, m)
OtherPairs(rows, u, m) == {r \in rows : ~(r.user_id = u /\ r.module_id = m)}

\* the lesson_progress rows of the pair (u, m) for lesson ids other than l
OtherLessons(lp, u, m, l) == {r \in SelectLessons(lp, u, m) : r.lesson_id # l}

\* C38: updateLessonProgress and resetModuleProgress of a pair (user, module) leave the
\* user_progress and lesson_progress rows of every other pair unchanged, and
\* updateLessonProgress of a lesson id leaves the pair's rows of the other lesson ids
\* unchanged
C38_OtherRowsUnchanged ==
    [][/\ (Called("updateLessonProgress") \/ Called("resetModuleProgress")) =>
            /\ OtherPairs(user_progress', ret'.userId, ret'.moduleId)
                  = OtherPairs(user_progress, ret'.userId, ret'.moduleId)
            /\ OtherPairs(lesson_progress', ret'.userId, ret'.moduleId)
                  = OtherPairs(lesson_progress, ret'.userId, ret'.moduleId)
       /\ Called("updateLessonProgress") =>
            OtherLessons(lesson_progress', ret'.userId, ret'.moduleId, ret'.lessonId)
              = OtherLessons(lesson_progress, ret'.userId, ret'.moduleId, ret'.lessonId)]_vars

\* C38 witness: a reset of one pair was answered while another module of the same user
\* and another user of the same module have their rows, one of them for two lessons
C38_Witness ==
    /\ ret.op = "resetModuleProgress"
    /\ ret.changes > 0
    /\ \E r \in lesson_progress : r.user_id = ret.userId /\ r.module_id # ret.moduleId
    /\ \E r \in lesson_progress : r.user_id # ret.userId /\ r.module_id = ret.moduleId
    /\ \E r \in user_progress : r.user_id = ret.userId /\ r.module_id # ret.moduleId
    /\ \E r, q \in lesson_progress :
          SamePair(r, q) /\ r.lesson_id = L1 /\ q.lesson_id = L2

----------------------------------------------------------------------------
(* SpecSnapshot: the time total stored in a certificate against the rows at issuance *)

InitSnapshot == InitWith({Content(1, 1)})

UpdateLessonSnapshot == UpdateLessonIn({<<L1, NULL>>, <<Q1, 80>>}, BOOLEAN, {1, 2})

NextSnapshot ==
    \/ UpdateLessonSnapshot
    \/ ResetModule
    \/ GenerateCertificate

SpecSnapshot == InitSnapshot /\ [][NextSnapshot]_vars

\* The time_spent the row of item l contributes for (u, m): its value when the row is
\* completed, nothing otherwise
CompletedTime(u, m, l) ==
    IF \E r \in SelectLesson(lesson_progress, u, m, l) : r.completed
    THEN First(SelectLesson(lesson_progress, u, m, l)).time_spent
    ELSE 0

\* C28: the timeSpent of an issued certificate's snapshot is the sum of time_spent over
\* the completed lesson and quiz rows of the pair at issuance; rows that are not
\* completed contribute nothing
C28_SnapshotSumsCompletedTime ==
    [][(Called("generateCertificate") /\ ret'.success) =>
          \A c \in ret'.data :
             c.certificate_data.timeSpent =
                CompletedTime(ret'.userId, ret'.moduleId, L1)
                  + CompletedTime(ret'.userId, ret'.moduleId, Q1)]_vars

\* C28 witness: a certificate issued while the quiz row holds time but is not completed;
\* its snapshot holds the time of the completed lesson row only
C28_Witness ==
    /\ ret.op = "generateCertificate" /\ ret.success
    /\ \E c \in ret.data : \E r \in SelectLesson(lesson_progress, ret.userId, ret.moduleId, L1) :
          /\ c \in certificates
          /\ r.completed /\ r.time_spent > 0
          /\ c.certificate_data.timeSpent = r.time_spent
    /\ \E s \in SelectLesson(lesson_progress, ret.userId, ret.moduleId, Q1) :
          ~s.completed /\ s.time_spent > 0

----------------------------------------------------------------------------
(* SpecCrash: updateLessonProgress calls that stop between the write of the lesson row
   and the write of the aggregate, followed by calls that run to completion *)

InitCrash == InitWith({Content(2, 0)})

UpdateLessonCrash ==
    UpdateLessonIn({<<L1, NULL>>, <<L2, NULL>>, <<L3, NULL>>}, BOOLEAN, {0})

\* The call stops after the lesson row is written: updateModuleCompletionStatus fails
\* and leaves the aggregate as it was
StoppedUpdate ==
    \E u \in UserIds, m \in ModuleIds, l \in {L1, L2}, c \in BOOLEAN :
        updateLessonProgressFault(u, m, l, c, 0, NULL, "aggregate")

NextCrash ==
    \/ UpdateLessonCrash
    \/ StoppedUpdate
    \/ ResetModule
    \/ Tick

SpecCrash == InitCrash /\ [][NextCrash]_vars

\* The aggregate of (u, m) in up is the one recomputed from the lesson rows lp
Recomputed(up, lp, u, m) ==
    \A r \in SelectUserProgress(up, u, m) : \A mod \in SelectModule(modules, m) :
        /\ r.completed = (/\ CompletedLessons(lp, u, m) >= mod.content.lessons
                          /\ CompletedQuizzes(lp, u, m) >= mod.content.quizzes)
        /\ RoundsTo(r.progress_percentage,
                    100 * (CompletedLessons(lp, u, m) + CompletedQuizzes(lp, u, m)),
                    mod.content.lessons + mod.content.quizzes)

\* C29: when a call has stopped after writing the lesson row and before the aggregate
\* was stored (the aggregate is stale), the next updateLessonProgress call of the pair
\* that runs to completion leaves progress_percentage and completed equal to the values
\* recomputed from the lesson rows then stored
C29_StaleAggregateHealed ==
    [][(/\ Called("updateLessonProgress") /\ ~Faulted(ret') /\ ret'.success
        /\ ~Recomputed(user_progress, lesson_progress, ret'.userId, ret'.moduleId)) =>
          /\ SelectUserProgress(user_progress', ret'.userId, ret'.moduleId) # {}
          /\ Recomputed(user_progress', lesson_progress', ret'.userId, ret'.moduleId)]_vars

\* C29 witness: both lessons were completed at time 0 but the module only got its
\* completion_date from a complete call at a later time: the call that completed the
\* second lesson had stopped before the aggregate
C29_Witness ==
    /\ ret.op = "updateLessonProgress" /\ ~Faulted(ret) /\ ret.success
    /\ \A l \in {L1, L2} : \E s \in SelectLesson(lesson_progress, ret.userId, ret.moduleId, l) :
          s.completed /\ s.completed_at = 0
    /\ \E r \in SelectUserProgress(user_progress, ret.userId, ret.moduleId) :
          r.completed /\ r.progress_percentage = 100 /\ r.completion_date = MaxNow

----------------------------------------------------------------------------
(* SpecTracker: one session of the time tracker: seconds passing, the window gaining
   and losing focus, auto-saves and manual saves whose onSave resolves or rejects *)

InitTracker == InitWith({Content(1, 0)})

OnSaveSettles ==
    \E i \in 1..MaxSaves : OnSaveResolves(i) \/ OnSaveRejects(i)

VisibilityChange == \E hidden \in BOOLEAN : handleVisibilityChange(hidden)

NextTracker ==
    \/ Second
    \/ IntervalTick
    \/ AutoSave
    \/ saveProgress
    \/ OnSaveSettles
    \/ handleFocus
    \/ handleBlur
    \/ VisibilityChange
    \/ resetTracker
    \/ cleanup

SpecTracker == InitTracker /\ [][NextTracker]_vars

----------------------------------------------------------------------------
(* SpecSaves: the saves of one tracker session in a window that stays visible: seconds
   passing, the window losing and gaining the focus, auto-saves and manual saves whose
   onSave resolves or rejects *)

InitSaves == InitWith({Content(1, 0)})

NextSaves ==
    \/ Second
    \/ IntervalTick
    \/ AutoSave
    \/ saveProgress
    \/ OnSaveSettles
    \/ handleFocus
    \/ handleBlur

SpecSaves == InitSaves /\ [][NextSaves]_vars

\* The step issues an onSave call of an auto-save or of saveProgress
SaveIssued ==
    /\ Len(tracker'.onSaveCalls) = Len(tracker.onSaveCalls) + 1
    /\ tracker'.onSaveCalls[Len(tracker'.onSaveCalls)].kind \in {"auto", "manual"}

\* In the step the onSave call i of an auto-save or of saveProgress gets the outcome
SaveSettled(i, outcome) ==
    /\ i \in DOMAIN tracker.onSaveCalls
    /\ tracker.onSaveCalls[i].kind \in {"auto", "manual"}
    /\ tracker.onSaveCalls[i].outcome = "pending"
    /\ tracker'.onSaveCalls[i].outcome = outcome

Overlap(i, j) ==
    /\ i < j
    /\ {tracker.onSaveCalls[i].kind, tracker.onSaveCalls[j].kind} = {"auto", "manual"}
    /\ i \notin tracker.onSaveCalls[j].after

\* C31: when an auto-save and a manual save overlap (the second is issued before the
\* onSave of the first has resolved), the accumulated delta is passed to onSave at most
\* once: the seconds the second call passes start after those of the first
C31_OverlapPassesDeltaOnce ==
    \A i, j \in DOMAIN tracker.onSaveCalls :
        Overlap(i, j) =>
            tracker.onSaveCalls[j].since
              >= tracker.onSaveCalls[i].since + tracker.onSaveCalls[i].timeSpent

\* The seconds the delta of an onSave call stands for: second t is the one that passes
\* while the clock goes from t to t + 1
DeltaSeconds(call) == call.since .. (call.since + call.timeSpent - 1)

\* C32: the time during which the window is blurred or the document hidden is in no delta
\* passed to onSave: every second a delta stands for has passed, and passed with the
\* window active
C32_NoInactiveTimeInDelta ==
    \A i \in DOMAIN tracker.onSaveCalls :
        \A t \in DeltaSeconds(tracker.onSaveCalls[i]) :
            t + 1 \in DOMAIN tracker.activity /\ tracker.activity[t + 1]

\* The seconds that passed with the window active before cleanup()
ActiveSeconds == Cardinality({t \in DOMAIN tracker.activity : tracker.activity[t]})

\* The sum of the deltas passed to onSave
PassedSeconds ==
    SumOver(DOMAIN tracker.onSaveCalls,
            [i \in DOMAIN tracker.onSaveCalls |-> tracker.onSaveCalls[i].timeSpent])

\* C36: with onSave always succeeding, after cleanup() (and every onSave resolved) the sum
\* of the deltas passed to onSave is the number of seconds the tracker was active, within
\* one second (one tick)
C36_NoActiveTimeDiscarded ==
    (/\ ~tracker.running
     /\ \A i \in DOMAIN tracker.onSaveCalls : tracker.onSaveCalls[i].outcome = "resolved") =>
        /\ PassedSeconds <= ActiveSeconds + 1
        /\ ActiveSeconds <= PassedSeconds + 1

====
